---- MODULE Spec2Model ----
(***************************************************************************)
(* A model of brightwind's shear estimators and scaler                     *)
(* (brightwind/analyse/shear.py), of its correlation models                *)
(* (brightwind/analyse/correlation.py) and of its tab file export          *)
(* (brightwind/export/export.py).                                          *)
(*                                                                         *)
(* Numbers.  Wind speeds, exponents and scale factors are exact rationals, *)
(* a pair <<n, d>> in lowest terms with d > 0.  A float NaN is <<0, 0>>.    *)
(* np.log is taken to base 2 and is exact on the powers of two; the        *)
(* constructors' inputs are drawn so that every logarithm the code takes   *)
(* is of a power of two.  A change of base rescales a log-law slope and    *)
(* leaves every power-law exponent and every scaled speed as it is.        *)
(***************************************************************************)
EXTENDS Integers, Sequences, FiniteSets, TLC

VARIABLES
    est,        \* the shear estimator object most recently constructed
    call,       \* the most recent shear call: what it was given, how it ended
    model,      \* the correlation model object most recently constructed
    ccall       \* the most recent correlation call: what it was, how it ended

shearVars == <<est, call>>
correlVars == <<model, ccall>>
vars == <<est, call, model, ccall>>

---------------------------------------------------------------------------
(* Rationals *)

Abs(x) == IF x < 0 THEN -x ELSE x

RECURSIVE GCD(_, _)
GCD(a, b) == IF b = 0 THEN a ELSE GCD(b, a % b)

NaN == <<0, 0>>
IsNaN(q) == q[2] = 0

\* n/d in lowest terms, the sign carried by the numerator; x/0 is NaN
Rat(n, d) ==
    IF d = 0 THEN NaN
    ELSE LET g == GCD(Abs(n), Abs(d))
             s == IF d < 0 THEN -1 ELSE 1
         IN  <<(s * n) \div g, (s * d) \div g>>

R(n) == <<n, 1>>

RatAdd(p, q) == IF IsNaN(p) \/ IsNaN(q) THEN NaN
                ELSE Rat(p[1] * q[2] + q[1] * p[2], p[2] * q[2])
RatNeg(p) == IF IsNaN(p) THEN NaN ELSE <<-p[1], p[2]>>
RatSub(p, q) == RatAdd(p, RatNeg(q))
RatMul(p, q) == IF IsNaN(p) \/ IsNaN(q) THEN NaN
                ELSE Rat(p[1] * q[1], p[2] * q[2])
RatDiv(p, q) == IF IsNaN(p) \/ IsNaN(q) THEN NaN
                ELSE Rat(p[1] * q[2], p[2] * q[1])
\* p > q as floats compare: anything against NaN is false
RatGt(p, q) == ~IsNaN(p) /\ ~IsNaN(q) /\ p[1] * q[2] > q[1] * p[2]
RatGe(p, q) == ~IsNaN(p) /\ ~IsNaN(q) /\ p[1] * q[2] >= q[1] * p[2]
RatLt(p, q) == RatGt(q, p)
IsInt(p) == p[2] = 1

RECURSIVE IntPow(_, _)
IntPow(b, k) == IF k = 0 THEN 1 ELSE b * IntPow(b, k - 1)

\* p ** a for a rational base and an integer-valued exponent
RatPow(p, a) ==
    IF IsNaN(p) \/ IsNaN(a) THEN NaN
    ELSE IF ~IsInt(a) THEN CHOOSE x \in {} : TRUE     \* outside the model's numbers
    ELSE IF a[1] >= 0 THEN Rat(IntPow(p[1], a[1]), IntPow(p[2], a[1]))
    ELSE Rat(IntPow(p[2], -a[1]), IntPow(p[1], -a[1]))

RECURSIVE RatSum(_)
RatSum(s) == IF s = <<>> THEN R(0) ELSE RatAdd(Head(s), RatSum(Tail(s)))

\* pandas mean: NaN for no values
RatMean(s) == IF s = <<>> THEN NaN ELSE RatDiv(RatSum(s), R(Len(s)))

MaxLog == 5
IsPow2(n) == \E k \in 0..MaxLog : IntPow(2, k) = n
Log2Int(n) == CHOOSE k \in 0..MaxLog : IntPow(2, k) = n
\* np.log (to base 2) of a positive rational whose two parts are powers of two
HasLog(q) == ~IsNaN(q) /\ q[1] > 0 /\ IsPow2(q[1]) /\ IsPow2(q[2])
Log(q) == R(Log2Int(q[1]) - Log2Int(q[2]))

\* np.log of every element
Logs(s) == [i \in 1..Len(s) |-> Log(s[i])]

---------------------------------------------------------------------------
(* shear.py: the fits *)

\* np.polyfit(x, y, deg=1): the least-squares line, <<slope, intercept>>
Polyfit(xs, ys) ==
    LET n   == R(Len(xs))
        sx  == RatSum(xs)
        sy  == RatSum(ys)
        sxy == RatSum([i \in 1..Len(xs) |-> RatMul(xs[i], ys[i])])
        sxx == RatSum([i \in 1..Len(xs) |-> RatMul(xs[i], xs[i])])
        slope == RatDiv(RatSub(RatMul(n, sxy), RatMul(sx, sy)),
                        RatSub(RatMul(n, sxx), RatMul(sx, sx)))
    IN  <<slope, RatDiv(RatSub(sy, RatMul(slope, sx)), n)>>

\* np.polyfit raises TypeError for vectors of different lengths or no points
PolyfitRaises(xs, ys) == Len(xs) # Len(ys) \/ Len(xs) = 0

\* _calc_power_law(wspds, heights, return_coeff=True): <<alpha, c>>
_calc_power_law(wspds, heights) ==
    LET coeffs == Polyfit(Logs(heights), Logs(wspds))
    IN  <<coeffs[1], RatPow(R(2), coeffs[2])>>

\* _calc_log_law(wspds, heights, return_coeff=True): <<slope, intercept>>
_calc_log_law(wspds, heights) == Polyfit(Logs(heights), wspds)

\* sorted(s) for a sequence of rationals, ascending
RECURSIVE SortRat(_)
SortRat(s) ==
    IF s = <<>> THEN <<>>
    ELSE LET i == CHOOSE i \in 1..Len(s) : \A j \in 1..Len(s) : ~RatLt(s[j], s[i])
         IN  <<s[i]>> \o SortRat([k \in 1..(Len(s) - 1) |-> IF k < i THEN s[k] ELSE s[k + 1]])

\* _calc_roughness_coeff(wspds, heights): the mean over adjacent pairs of
\* e ** q.  The model keeps the exponents q (to base 2), not the powers.
_calc_roughness_coeff(wspds, heights) ==
    LET w == SortRat(wspds)
        h == SortRat(heights)
    IN  [i \in 1..(Len(w) - 1) |->
            RatDiv(RatSub(RatMul(w[i], Log(h[i + 1])), RatMul(w[i + 1], Log(h[i]))),
                   RatSub(w[i], w[i + 1]))]

---------------------------------------------------------------------------
(* shear.py: the estimator objects *)

Unset == <<>>

\* no object: the constructor raised, or none was called yet
NoEst == [origin |-> "none", calc_method |-> "none", attrs |-> {},
          alpha |-> Unset, slope |-> Unset, intercept |-> Unset,
          roughness_coefficient |-> Unset, sectors |-> 0]

\* no call yet.  made: the object a constructor returned; self: the object
\* as far as a constructor built it, or the object apply was called on
NoCall == [op |-> "none", raised |-> "none", fit |-> FALSE, warned |-> FALSE,
           result |-> <<>>, made |-> NoEst, self |-> NoEst, args |-> <<>>]

\* wspds.dropna(): the rows without a missing value
DropNaRows(wspds) == SelectSeq(wspds, LAMBDA row : \A k \in 1..Len(row) : ~IsNaN(row[k]))

\* the filter with .any(axis=1) in place of .all(axis=1)
AboveMinSpeedAny(wspds, min_speed) ==
    SelectSeq(wspds, LAMBDA row : \E k \in 1..Len(row) : RatGt(row[k], min_speed))

\* wspds[(wspds > min_speed).all(axis=1)]
AboveMinSpeed(wspds, min_speed) ==
    SelectSeq(wspds, LAMBDA row : \A k \in 1..Len(row) : RatGt(row[k], min_speed))

\* df.mean().dropna(): the column means, none when the frame has no rows
ColumnMeans(rows, ncols) ==
    IF rows = <<>> THEN <<>>
    ELSE [k \in 1..ncols |-> RatMean([i \in 1..Len(rows) |-> rows[i][k]])]

\* Average.__init__, lines 247-258: the attributes the fit sets on self
AverageFit(mean_wspds, heights, calc_method) ==
    IF calc_method = "power_law"
    THEN [NoEst EXCEPT !.attrs = {"alpha"},
                       !.alpha = _calc_power_law(mean_wspds, heights)[1]]
    ELSE [NoEst EXCEPT !.attrs = {"slope", "intercept", "roughness_coefficient"},
                       !.slope = _calc_log_law(mean_wspds, heights)[1],
                       !.intercept = _calc_log_law(mean_wspds, heights)[2],
                       !.roughness_coefficient = _calc_roughness_coeff(mean_wspds, heights)]

\* Average.__init__, line 271: output_data['alpha'] = alpha reads the local
\* alpha, which only the power_law branch (line 248) binds
AlphaBound(calc_method) == calc_method = "power_law"

\* analyse.coverage of the rows above min_speed: the share they are of the
\* rows given.  It returns for a frame without rows as for any other.
coverage(kept, rows) == [raised |-> "none", value |-> Rat(Len(kept), Len(rows))]

\* Average.__init__: [raised, fit, obj]; obj is self as far as it was built
AverageInit(wspds, heights, calc_method, min_speed) ==
    LET data == DropNaRows(wspds)
        cvg == coverage(AboveMinSpeed(data, min_speed), data)
        mean_wspds == ColumnMeans(AboveMinSpeed(data, min_speed), Len(heights))
    IN  IF cvg.raised # "none"
        THEN [raised |-> cvg.raised, fit |-> FALSE, obj |-> NoEst]
        ELSE IF Len(mean_wspds) = 0
        THEN [raised |-> "ValueError", fit |-> FALSE, obj |-> NoEst]
        ELSE IF calc_method \notin {"power_law", "log_law"}
        THEN [raised |-> "ValueError", fit |-> FALSE, obj |-> NoEst]
        ELSE LET self == AverageFit(mean_wspds, heights, calc_method)
             IN  IF ~AlphaBound(calc_method)
                 THEN [raised |-> "NameError", fit |-> TRUE, obj |-> self]
                 ELSE [raised |-> "none", fit |-> TRUE,
                       obj |-> [self EXCEPT !.origin = "Average",
                                            !.calc_method = calc_method]]

---------------------------------------------------------------------------
(* shear.py: TimeOfDay *)

HoursPerDay == 24
MonthsPerYear == 12

\* start_times: day_start_time, then steps of int(24 / daily_segments) hours
StartTimes(day_start_time, daily_segments) ==
    [i \in 1..daily_segments |->
        (day_start_time + (i - 1) * (HoursPerDay \div daily_segments)) % HoursPerDay]

\* DataFrame.between_time(start, end, include_end=False) on the hour of day
BetweenTime(h, start, end) ==
    IF start <= end THEN start <= h /\ h < end ELSE h >= start \/ h < end

\* the rows of month j in segment i: from its start to the next segment's
\* start, the last segment to the first start
SegmentRows(rows, j, i, starts) ==
    LET end == IF i = Len(starts) THEN starts[1] ELSE starts[i + 1]
    IN  SelectSeq(rows, LAMBDA r : r.m = j /\ BetweenTime(r.h, starts[i], end))

\* mean_time_wspds[i] of month j
SegmentMeans(rows, j, i, starts, heights, min_speed) ==
    LET seg == SegmentRows(rows, j, i, starts)
    IN  ColumnMeans(AboveMinSpeed([n \in 1..Len(seg) |-> seg[n].spd], min_speed),
                    Len(heights))

\* sort_index of a grid: its rows [hour, vals] by hour of day
RECURSIVE SortGrid(_)
SortGrid(g) ==
    IF g = <<>> THEN <<>>
    ELSE LET i == CHOOSE i \in 1..Len(g) : \A j \in 1..Len(g) :
                      g[i].hour < g[j].hour \/ (g[i].hour = g[j].hour /\ i <= j)
         IN  <<g[i]>> \o SortGrid([k \in 1..(Len(g) - 1) |-> IF k < i THEN g[k] ELSE g[k + 1]])

\* the monthly grid of one fitted quantity: a row per segment, a column per
\* month, or the one column of row means when by_month is false; sorted
MonthlyGrid(cell, starts, by_month) ==
    SortGrid([i \in 1..Len(starts) |->
        [hour |-> starts[i],
         vals |-> IF by_month THEN [j \in 1..MonthsPerYear |-> cell[j][i]]
                  ELSE <<RatMean([j \in 1..MonthsPerYear |-> cell[j][i]])>>]])

\* TimeOfDay.__init__: [raised, fit, obj]
TimeOfDayInit(wspds, heights, calc_method, min_speed, by_month, day_start_time, daily_segments) ==
    LET rows == SelectSeq(wspds, LAMBDA r : \A k \in 1..Len(r.spd) : ~IsNaN(r.spd[k]))
        starts == StartTimes(day_start_time, daily_segments)
        mean(j, i) == SegmentMeans(rows, j, i, starts, heights, min_speed)
        \* lines 109-121: np.polyfit raises on a cell without data
        empty == \E j \in 1..MonthsPerYear, i \in 1..daily_segments : Len(mean(j, i)) = 0
        \* both methods fit with _calc_power_law (lines 111, 116)
        fitted(j, i) == _calc_power_law(mean(j, i), heights)
        alpha == [j \in 1..MonthsPerYear |-> [i \in 1..daily_segments |-> fitted(j, i)[1]]]
        coeff == [j \in 1..MonthsPerYear |-> [i \in 1..daily_segments |-> fitted(j, i)[2]]]
        rough == [j \in 1..MonthsPerYear |-> [i \in 1..daily_segments |->
                     RatMean(_calc_roughness_coeff(mean(j, i), heights))]]
        self == [NoEst EXCEPT !.origin = "TimeOfDay", !.calc_method = calc_method]
    IN  IF calc_method \in {"power_law", "log_law"} /\ empty
        THEN [raised |-> "TypeError", fit |-> TRUE, obj |-> NoEst]
        ELSE IF calc_method = "power_law"
        THEN [raised |-> "none", fit |-> TRUE,
              obj |-> [self EXCEPT !.attrs = {"alpha"},
                                   !.alpha = MonthlyGrid(alpha, starts, by_month)]]
        ELSE IF calc_method = "log_law"
        THEN [raised |-> "none", fit |-> TRUE,
              obj |-> [self EXCEPT
                  !.attrs = {"slope", "intercept", "roughness_coefficient"},
                  !.slope = MonthlyGrid(alpha, starts, by_month),
                  !.intercept = MonthlyGrid(coeff, starts, by_month),
                  !.roughness_coefficient = MonthlyGrid(rough, starts, by_month)]]
        \* no branch rejects another method name: the object is built unfitted
        ELSE [raised |-> "none", fit |-> FALSE, obj |-> self]

---------------------------------------------------------------------------
(* shear.py: BySector *)

FullCircle == 360

\* distribution_by_dir_sector's sectors when no direction_bin_array is given:
\* equal widths, the first centred on 0.  Sector k is [lo, hi), wrapping at 360.
SectorEdges(sectors) ==
    LET w == Rat(FullCircle, sectors)
        half == RatDiv(w, R(2))
        wrap(q) == IF RatLt(q, R(0)) THEN RatAdd(q, R(FullCircle)) ELSE q
    IN  [k \in 1..sectors |->
            [lo |-> wrap(RatSub(RatMul(R(k - 1), w), half)),
             hi |-> RatAdd(RatMul(R(k - 1), w), half)]]

InSector(d, e) ==
    IF RatGt(e.lo, e.hi) THEN RatGe(d, e.lo) \/ RatLt(d, e.hi)
    ELSE RatGe(d, e.lo) /\ RatLt(d, e.hi)

\* distribution_by_dir_sector(..., aggregation_method='mean'): per sector its
\* label 'lo-hi' and the mean of the values whose direction falls in it
DistributionByDirSector(vals, dirs, sectors) ==
    LET edges == SectorEdges(sectors)
    IN  [k \in 1..sectors |->
            [label |-> edges[k],
             mean  |-> LET in == SelectSeq([i \in 1..Len(vals) |->
                                                [v |-> vals[i], d |-> dirs[i]]],
                                            LAMBDA r : InSector(r.d, edges[k]))
                       IN  RatMean([n \in 1..Len(in) |-> in[n].v]) ]]

\* BySector.__init__: [raised, fit, obj]; wspds rows are [spd, dir]
BySectorInit(wspds, heights, calc_method, sectors, min_speed) ==
    LET rows == SelectSeq(wspds, LAMBDA r : \A k \in 1..Len(r.spd) : RatGt(r.spd[k], min_speed))
        shear == IF calc_method = "power_law"
                 THEN [n \in 1..Len(rows) |-> _calc_power_law(rows[n].spd, heights)[1]]
                 ELSE [n \in 1..Len(rows) |-> _calc_log_law(rows[n].spd, heights)[1]]
    IN  IF calc_method \notin {"power_law", "log_law"}
        THEN [raised |-> "ValueError", fit |-> FALSE, obj |-> NoEst]
        ELSE [raised |-> "none", fit |-> TRUE,
              obj |-> [NoEst EXCEPT
                  !.origin = "BySector", !.calc_method = calc_method,
                  !.attrs = {"alpha"}, !.sectors = sectors,
                  !.alpha = DistributionByDirSector(shear,
                               [n \in 1..Len(rows) |-> rows[n].dir], sectors)]]

---------------------------------------------------------------------------
(* shear.py: the scaler *)

\* log_scale(wspds, height, height_to_scale_to, slope, intercept)
log_scale(w, height, height_to_scale_to, slope, intercept) ==
    LET graph_speed == RatAdd(RatMul(slope, Log(R(height))), intercept)
        error == RatNeg(RatDiv(RatSub(graph_speed, w), graph_speed))
        scaled_graph_speed == RatAdd(RatMul(slope, Log(R(height_to_scale_to))), intercept)
    IN  RatAdd(scaled_graph_speed, RatMul(error, scaled_graph_speed))

\* _scale for calc_method 'power_law', one observation
PowerScale(w, height, height_to_scale_to, alpha) ==
    RatMul(w, RatPow(Rat(height_to_scale_to, height), alpha))

\* _scale(wspds, height, height_to_scale_to, calc_method, ...) on the
\* observations [t, m, h, v, d]: the same observations, v scaled
_scale(wspds, height, height_to_scale_to, calc_method, alpha, slope, intercept) ==
    IF calc_method = "power_law"
    THEN [n \in 1..Len(wspds) |->
             [wspds[n] EXCEPT !.v = PowerScale(@, height, height_to_scale_to, alpha)]]
    ELSE [n \in 1..Len(wspds) |->
             [wspds[n] EXCEPT !.v = log_scale(@, height, height_to_scale_to,
                                              slope, intercept)]]

\* _fill_alpha_12x24(df): 24 hourly rows from a sorted grid of n rows; row i
\* fills int(24/n) hours from the first row's hour on; the rest stay NaN
_fill_alpha_12x24(df) ==
    LET n == Len(df)
        interval == HoursPerDay \div n
        first == df[1].hour
        ncols == Len(df[1].vals)
    IN  [x \in 1..HoursPerDay |->
            LET pos == ((x - 1) - first) % HoursPerDay
                seg == pos \div interval
            IN  [hour |-> x - 1,
                 vals |-> IF interval > 0 /\ seg < n THEN df[seg + 1].vals
                          ELSE [c \in 1..ncols |-> NaN]]]

\* Series.sort_index(): the observations by timestamp
RECURSIVE SortObs(_)
SortObs(s) ==
    IF s = <<>> THEN <<>>
    ELSE LET i == CHOOSE i \in 1..Len(s) : \A j \in 1..Len(s) :
                      s[i].t < s[j].t \/ (s[i].t = s[j].t /\ i <= j)
         IN  <<s[i]>> \o SortObs([k \in 1..(Len(s) - 1) |-> IF k < i THEN s[k] ELSE s[k + 1]])

\* pd.concat of a list of series, in list order
RECURSIVE ConcatAll(_)
ConcatAll(ss) ==
    IF Len(ss) = 0 THEN <<>>
    ELSE IF Len(ss) = 1 THEN ss[1]
    ELSE LET half == Len(ss) \div 2
         IN  ConcatAll(SubSeq(ss, 1, half)) \o ConcatAll(SubSeq(ss, half + 1, Len(ss)))

\* _apply, lines 650-686: [raised, warned, result]
ApplyTimeOfDay(self, wspds, height, height_to_scale_to) ==
    IF self.calc_method \notin {"power_law", "log_law"}
    \* filled_alpha is bound in neither branch and read at line 667
    THEN [raised |-> "NameError", warned |-> FALSE, result |-> <<>>]
    ELSE
    LET filled_alpha == _fill_alpha_12x24(IF self.calc_method = "power_law"
                                          THEN self.alpha ELSE self.slope)
        filled_intercept == IF self.calc_method = "power_law" THEN filled_alpha
                            ELSE _fill_alpha_12x24(self.intercept)
        cell(i, j) == SelectSeq(wspds, LAMBDA o : o.h = i - 1 /\ o.m = j)
        scaled(i, j) == _scale(cell(i, j), height, height_to_scale_to, self.calc_method,
                               filled_alpha[i].vals[j], filled_alpha[i].vals[j],
                               filled_intercept[i].vals[j])
    IN  IF Len(filled_alpha[1].vals) < MonthsPerYear
        \* filled_alpha.iloc[i, j] with j past the one '12 Month Average' column
        THEN [raised |-> "IndexError", warned |-> FALSE, result |-> <<>>]
        ELSE [raised |-> "none", warned |-> FALSE,
              result |-> SortObs(ConcatAll([c \in 1..(HoursPerDay * MonthsPerYear) |->
                             scaled(((c - 1) \div MonthsPerYear) + 1,
                                    ((c - 1) % MonthsPerYear) + 1)]))]

\* wdir: a direction per observation, or None
NoDir == [given |-> FALSE, vals |-> <<>>]
Dir(vals) == [given |-> TRUE, vals |-> vals]

\* _apply without its check of the direction series
BySectorNeverNeedsDir(self, wdir) == FALSE

\* _apply, lines 688-692: a BySector object cannot scale without directions
BySectorNeedsDir(self, wdir) == self.origin = "BySector" /\ wdir = NoDir

\* re.findall(r"[-+]?\d*\.\d+|\d+", label) on 'lo-hi' with both numbers
\* written as floats: the separator is read as the sign of the second
LabelNumbers(label) == <<label.lo, RatNeg(label.hi)>>

\* _apply, lines 694-738: [raised, warned, result]
ApplyBySector(self, wspds, height, height_to_scale_to) ==
    LET n == self.sectors
        alpha_bounds == [i \in 1..(n + 1) |->
                            IF i <= n THEN LabelNumbers(self.alpha[i].label)[1]
                            ELSE RatNeg(LabelNumbers(self.alpha[n].label)[2])]
        by_sector(i) ==
            IF RatGt(alpha_bounds[i], alpha_bounds[i + 1])
            THEN SelectSeq(wspds, LAMBDA o : RatGe(o.d, alpha_bounds[i])
                                             \/ RatLt(o.d, alpha_bounds[i + 1]))
            ELSE IF alpha_bounds[i + 1] = R(FullCircle)
            THEN SelectSeq(wspds, LAMBDA o : RatGe(o.d, alpha_bounds[i]))
            ELSE SelectSeq(wspds, LAMBDA o : RatGe(o.d, alpha_bounds[i])
                                             /\ RatLt(o.d, alpha_bounds[i + 1]))
        \* log_scale multiplies the slope None: TypeError on the first row
        fails == self.calc_method = "log_law" /\ \E i \in 1..n : by_sector(i) # <<>>
    IN  IF fails THEN [raised |-> "TypeError", warned |-> FALSE, result |-> <<>>]
        ELSE [raised |-> "none", warned |-> FALSE,
              result |-> SortObs(ConcatAll([i \in 1..n |->
                             _scale(by_sector(i), height, height_to_scale_to,
                                    self.calc_method, self.alpha[i].mean, NaN, NaN)]))]

\* _apply, lines 742-745: directions given to an Average object are ignored
\* with a warning
WarnsDirIgnored(self, wdir) == self.origin = "Average" /\ wdir # NoDir

\* _apply, lines 747-753: [raised, warned, result]
ApplyAverage(self, wspds, height, height_to_scale_to, wdir) ==
    [raised |-> "none", warned |-> WarnsDirIgnored(self, wdir),
     result |-> IF self.calc_method = "power_law"
                \* line 748 passes height as height_to_scale_to
                THEN _scale(wspds, height, height, self.calc_method, self.alpha, NaN, NaN)
                ELSE _scale(wspds, height, height_to_scale_to, self.calc_method, NaN,
                            self.slope, self.intercept)]

\* _apply(self, wspds, height, height_to_scale_to, wdir): [raised, warned, result]
_apply(self, wspds, height, height_to_scale_to, wdir) ==
    IF self.origin = "TimeOfDay"
    THEN ApplyTimeOfDay(self, wspds, height, height_to_scale_to)
    ELSE IF BySectorNeedsDir(self, wdir)
    THEN [raised |-> "ValueError", warned |-> FALSE, result |-> <<>>]
    ELSE IF self.origin = "BySector"
    \* pd.concat([wspds, wdir], axis=1): a direction beside each speed
    THEN ApplyBySector(self, [i \in 1..Len(wspds) |->
                                 [wspds[i] EXCEPT !.d = IF wdir.given THEN wdir.vals[i]
                                                        ELSE NaN]],
                       height, height_to_scale_to)
    ELSE ApplyAverage(self, wspds, height, height_to_scale_to, wdir)

---------------------------------------------------------------------------
(* correlation.py: series and the collaborators of the models *)

\* A series is its observations [t, v] in time order, t the timestamp and v
\* the speed, NaN where the value is missing.

Min2(a, b) == IF a <= b THEN a ELSE b
Max2(a, b) == IF a >= b THEN a ELSE b

\* s.dropna()
DropNa(s) == SelectSeq(s, LAMBDA o : ~IsNaN(o.v))
\* s.index, s.index.min(), s.index.max()
Index(s) == [i \in 1..Len(s) |-> s[i].t]
IndexMin(s) == s[1].t
IndexMax(s) == s[Len(s)].t
\* s[a:b]: a slice by label keeps both ends
SliceTs(s, a, b) == SelectSeq(s, LAMBDA o : a <= o.t /\ o.t <= b)
\* s.mean(): the mean of the values that are not missing
SeriesMean(s) == RatMean([i \in 1..Len(DropNa(s)) |-> DropNa(s)[i].v])

\* tf._get_min_overlap_timestamp: the later of the two earliest timestamps
_get_min_overlap_timestamp(idx1, idx2) == Max2(idx1[1], idx2[1])

\* tf.merge_datasets_by_period at the period the series are sampled at: a row
\* for every timestamp at which each reference and the target have a value
merge_datasets_by_period(refs, target) ==
    LET hasAll(i) == ~IsNaN(target[i].v) /\ \A k \in 1..Len(refs) : ~IsNaN(refs[k][i].v)
        kept == SelectSeq([i \in 1..Len(target) |-> i], hasAll)
    IN  [j \in 1..Len(kept) |->
            [t |-> target[kept[j]].t,
             ref |-> [k \in 1..Len(refs) |-> refs[k][kept[j]].v],
             tar |-> target[kept[j]].v]]

\* timestamps in a calendar month
StampsPerMonth == 2
MonthOf(t) == ((t - 1) \div StampsPerMonth) + 1

\* momm: the mean of the means of the months that have a value
momm(s) ==
    LET valid == DropNa(s)
        months == {MonthOf(valid[i].t) : i \in 1..Len(valid)}
        ordered == SelectSeq([m \in 1..(Len(s) + 1) |-> m], LAMBDA m : m \in months)
    IN  RatMean([j \in 1..Len(ordered) |->
                    SeriesMean(SelectSeq(valid, LAMBDA o : MonthOf(o.t) = ordered[j]))])

\* tf._get_data_resolution of an index of two timestamps or more: the most
\* frequent step between consecutive timestamps, the smallest of them when
\* several are
_get_data_resolution(idx) ==
    LET steps == [i \in 1..(Len(idx) - 1) |-> idx[i + 1] - idx[i]]
        count(d) == Cardinality({i \in 1..Len(steps) : steps[i] = d})
        isMode(d) == \A i \in 1..Len(steps) :
                        count(steps[i]) < count(d)
                        \/ (count(steps[i]) = count(d) /\ d <= steps[i])
    IN  steps[CHOOSE i \in 1..Len(steps) : isMode(steps[i])]

\* np.nan_to_num
NanToNum(xs) == [i \in 1..Len(xs) |-> IF IsNaN(xs[i]) THEN R(0) ELSE xs[i]]

\* np.round to no decimals: halves go to the even neighbour
NpRound(q) ==
    LET f == q[1] \div q[2]
        twice == RatMul(R(2), RatSub(q, R(f)))
    IN  IF IsNaN(q) THEN NaN
        ELSE IF RatLt(twice, R(1)) THEN R(f)
        ELSE IF RatGt(twice, R(1)) THEN R(f + 1)
        ELSE IF f % 2 = 0 THEN R(f) ELSE R(f + 1)

\* scipy.linalg.lstsq of y on the columns [x, ..(K times).., 1]: the
\* least-squares <<slope of each column, offset>>, the one of least norm
\* where the columns do not determine it, zero for a problem without rows
lstsq(xs, ys, K) ==
    LET n == R(Len(xs))
        sx == RatSum(xs)
        ybar == RatMean(ys)
        determined == RatSub(RatMul(n, RatSum([i \in 1..Len(xs) |-> RatMul(xs[i], xs[i])])),
                             RatMul(sx, sx)) # R(0)
        line == Polyfit(xs, ys)
        c == xs[1]
        lambda == RatDiv(ybar, RatAdd(RatMul(R(K), RatMul(c, c)), R(1)))
    IN  IF Len(xs) = 0 THEN <<R(0), R(0)>>
        ELSE IF determined THEN <<RatDiv(line[1], R(K)), line[2]>>
        ELSE <<RatMul(lambda, c), lambda>>

---------------------------------------------------------------------------
(* correlation.py: the models *)

\* params, a dict: its <<key, value>> pairs
NotYetRun == {<<"status", "not yet run">>}
Keys(params) == {kv[1] : kv \in params}
Get(params, key) == (CHOOSE kv \in params : kv[1] = key)[2]

\* no model constructed yet
\* ref_cols: the column names of a merged list of references.  The fields
\* from ref_dir on are those of a SpeedSort; speed_model maps a sector's
\* number to its SectorSpeedModel; direction_bin_array is <<>>
\* where none was given.
NoModel == [kind |-> "none", ref_spd |-> <<>>, target_spd |-> <<>>, data |-> <<>>,
            num_data_pts |-> 0, params |-> {}, start_ts |-> 0, end_ts |-> 0,
            ref_cols |-> <<>>,
            ref_dir |-> <<>>, target_dir |-> <<>>, sectors |-> 0, lt_ref_speed |-> NaN,
            cutoff |-> NaN, ref_veer_cutoff |-> NaN, target_veer_cutoff |-> NaN,
            overall_veer |-> NaN, speed_model |-> <<>>,
            direction_bin_array |-> <<>>]

\* no call yet.  self: the model as it was when the call was made
NoCCall == [op |-> "none", raised |-> "none", warned |-> FALSE, self |-> NoModel,
            args |-> <<>>, result |-> <<>>]

\* CorrelBase.__init__ with the references as a list of series
CorrelBaseInit(kind, ref_spd, target_spd) ==
    LET data == merge_datasets_by_period(ref_spd, target_spd)
    IN  [NoModel EXCEPT !.kind = kind, !.ref_spd = ref_spd, !.target_spd = target_spd,
                        !.data = data, !.num_data_pts = Len(data),
                        !.params = NotYetRun]

\* A series' name: the mast it was measured at and the suffixes appended to
\* it since, 'Spd<mast>_<suffix>..'.
Name(mast) == [mast |-> mast, suffix |-> <<>>]

\* MultipleLinearRegression._merge_ref_spds(ref_spds): the column names of the
\* merged references.  ref_spds lists series objects, names holds the name of
\* each object; the loop renames the object at every place of the list.
RECURSIVE RenameFrom(_, _, _)
RenameFrom(idx, ref_spds, names) ==
    IF idx > Len(ref_spds) THEN names
    ELSE RenameFrom(idx + 1, ref_spds,
                    [names EXCEPT ![ref_spds[idx]].suffix = Append(@, idx)])

_merge_ref_spds(ref_spds, names) ==
    LET renamed == RenameFrom(1, ref_spds, names)
    IN  [i \in 1..Len(ref_spds) |-> renamed[ref_spds[i]]]

\* MultipleLinearRegression.__init__: the list's series, which hold the same
\* values, merged and handed to CorrelBase.__init__
MultipleLinearRegressionInit(ref_spds, names, values, target_spd) ==
    [CorrelBaseInit("MultipleLinearRegression", [k \in 1..Len(ref_spds) |-> values],
                    target_spd)
        EXCEPT !.ref_cols = _merge_ref_spds(ref_spds, names)]

\* SimpleSpeedRatio.__init__
SimpleSpeedRatioInit(ref_spd, target_spd) ==
    LET start == _get_min_overlap_timestamp(Index(DropNa(ref_spd)), Index(DropNa(target_spd)))
        \* line 353 takes the reference's last timestamp on both sides of min
        end == Min2(IndexMax(DropNa(ref_spd)), IndexMax(DropNa(ref_spd)))
    IN  [NoModel EXCEPT !.kind = "SimpleSpeedRatio", !.ref_spd = ref_spd,
                        !.target_spd = target_spd, !.start_ts = start, !.end_ts = end,
                        !.data = <<SliceTs(ref_spd, start, end),
                                   SliceTs(target_spd, start, end)>>,
                        !.params = NotYetRun]

RefColumn(data, k) == [i \in 1..Len(data) |-> data[i].ref[k]]
TarColumn(data) == [i \in 1..Len(data) |-> data[i].tar]

\* _predict of the three linear models on the rows of data: the sum over
\* the reference columns of value * slope, plus the offset
Predict(self, data) ==
    LET slope == Get(self.params, "slope")
        slopes == IF self.kind = "MultipleLinearRegression" THEN slope ELSE <<slope>>
    IN  [i \in 1..Len(data) |->
            RatAdd(RatSum([k \in 1..Len(slopes) |-> RatMul(data[i].ref[k], slopes[k])]),
                   Get(self.params, "offset"))]

\* get_r2: [raised, value].  The two sums are Python's sum() over a series:
\* floats, whose division by zero leaves a value that is no number, but the
\* int 0 over no rows, and 0 / 0 raises
get_r2(self) ==
    LET tar == TarColumn(self.data)
        pred == Predict(self, self.data)
        mean == RatMean(tar)
        sq(x) == RatMul(x, x)
    IN  IF Len(tar) = 0 THEN [raised |-> "ZeroDivisionError", value |-> NaN]
        ELSE [raised |-> "none",
              value |-> RatSub(R(1),
                          RatDiv(RatSum([i \in 1..Len(tar) |-> sq(RatSub(tar[i], pred[i]))]),
                                 RatSum([i \in 1..Len(tar) |-> sq(RatSub(tar[i], mean))])))]

\* lines 152-153 and 216-217: params['r2'] = self.get_r2(), then
\* params['num_data_points'], on the model that holds slope and offset
FillFitQuality(fitted) ==
    LET r2 == get_r2(fitted)
    IN  IF r2.raised # "none"
        THEN [raised |-> r2.raised, warned |-> FALSE, obj |-> fitted]
        ELSE [raised |-> "none", warned |-> FALSE,
              obj |-> [fitted EXCEPT !.params = @ \cup {<<"r2", r2.value>>,
                                                        <<"num_data_points",
                                                          fitted.num_data_pts>>}]]

\* what a call leaves: [raised, warned, obj], obj the model after the call

\* OrdinaryLeastSquares.run
OrdinaryLeastSquaresRun(self) ==
    LET p == lstsq(NanToNum(RefColumn(self.data, 1)), NanToNum(TarColumn(self.data)), 1)
        fitted == [self EXCEPT !.params = {<<"slope", p[1]>>, <<"offset", p[2]>>}]
    IN  {FillFitQuality(fitted)}

\* scipy.odr on the seed: the line the solver ends on, the seed itself where
\* no line lies closer to the points
OdrOutput(seed) == {seed, <<R(1), R(0)>>}

\* OrthogonalLeastSquares.run
OrthogonalLeastSquaresRun(self) ==
    LET p == lstsq(NanToNum(RefColumn(self.data, 1)), NanToNum(TarColumn(self.data)), 1)
        fitted(beta) == [self EXCEPT !.params = {<<"slope", beta[1]>>, <<"offset", beta[2]>>}]
    IN  {FillFitQuality(fitted(beta)) : beta \in OdrOutput(p)}

\* MultipleLinearRegression.run
MultipleLinearRegressionRun(self) ==
    LET K == Len(self.ref_spd)
        p == lstsq(RefColumn(self.data, 1), TarColumn(self.data), K)
    IN  {[raised |-> "none", warned |-> FALSE,
          obj |-> [self EXCEPT !.params = {<<"slope", [k \in 1..K |-> p[1]]>>,
                                           <<"offset", p[2]>>}]]}

\* a run that never finds the coverage poor
CoverageNeverPoor(target_overlap_coverage) == FALSE

\* lines 381-383: the coverage at which run() warns
CoverageIsPoor(target_overlap_coverage) == RatLt(target_overlap_coverage, Rat(9, 10))

\* SimpleSpeedRatio.run
SimpleSpeedRatioRun(self) ==
    LET cleared == [self EXCEPT !.params = {}]
        simple_speed_ratio == RatDiv(SeriesMean(self.data[2]), SeriesMean(self.data[1]))
        ref_long_term_momm == momm(self.ref_spd)
        tar_count == Len(DropNa(self.data[2]))
        tar_res == _get_data_resolution(Index(self.data[2]))
        span == Rat(self.end_ts - self.start_ts, tar_res)
        max_pts == IF tar_res = StampsPerMonth THEN NpRound(span) ELSE span
        target_overlap_coverage == RatDiv(R(tar_count), max_pts)
    IN  {[raised |-> "none", warned |-> CoverageIsPoor(target_overlap_coverage),
          obj |-> [cleared EXCEPT !.params =
                      {<<"simple_speed_ratio", simple_speed_ratio>>,
                       <<"ref_long_term_momm", ref_long_term_momm>>,
                       <<"target_long_term",
                         RatMul(simple_speed_ratio, ref_long_term_momm)>>,
                       <<"target_overlap_coverage", target_overlap_coverage>>}]]}

---------------------------------------------------------------------------
(* correlation.py: SpeedSort *)

\* Python's min(a, b) of two floats: b where b < a, else a
PyMin(a, b) == IF RatLt(b, a) THEN b ELSE a

\* utils._range_0_to_360: the direction brought into [0, 360)
_range_0_to_360(d) ==
    IF IsNaN(d) THEN NaN
    ELSE RatSub(d, R(FullCircle * ((d[1] \div d[2]) \div FullCircle)))

\* _binned_direction_series(dir, sectors): the number of the sector that holds
\* the direction, sectors of equal width with the first centred on 0; 0 for
\* no sector
_binned_direction_series(d, sectors) ==
    LET holds == {k \in 1..sectors : InSector(d, SectorEdges(sectors)[k])}
    IN  IF holds = {} THEN 0 ELSE CHOOSE k \in holds : TRUE

\* _binned_direction_series(dir, sectors, direction_bin_array=edges): the
\* number of the bin [edges[i], edges[i + 1]) that holds the direction
BinnedByEdges(d, edges) ==
    LET holds == {i \in 1..(Len(edges) - 1) : RatGe(d, edges[i]) /\ RatLt(d, edges[i + 1])}
    IN  IF holds = {} THEN 0 ELSE CHOOSE i \in holds : TRUE

\* a fit that splits the arrays after the middle point of an odd number
TwoMeansFitUpper(x_data, y_data) ==
    LET mid_pnt == (Len(x_data) + 1) \div 2
        xmean1 == RatMean(SubSeq(x_data, 1, mid_pnt))
        xmean2 == RatMean(SubSeq(x_data, mid_pnt + 1, Len(x_data)))
        ymean1 == RatMean(SubSeq(y_data, 1, mid_pnt))
        ymean2 == RatMean(SubSeq(y_data, mid_pnt + 1, Len(y_data)))
        slope == RatDiv(RatSub(ymean2, ymean1), RatSub(xmean2, xmean1))
    IN  [slope |-> slope, offset |-> RatSub(ymean1, RatMul(xmean1, slope))]

\* lines 407-414: the line through the means of the two halves of the
\* arrays, split at int(len(x_data) / 2)
TwoMeansFit(x_data, y_data) ==
    LET mid_pnt == Len(x_data) \div 2
        xmean1 == RatMean(SubSeq(x_data, 1, mid_pnt))
        xmean2 == RatMean(SubSeq(x_data, mid_pnt + 1, Len(x_data)))
        ymean1 == RatMean(SubSeq(y_data, 1, mid_pnt))
        ymean2 == RatMean(SubSeq(y_data, mid_pnt + 1, Len(y_data)))
        slope == RatDiv(RatSub(ymean2, ymean1), RatSub(xmean2, xmean1))
    IN  [slope |-> slope, offset |-> RatSub(ymean1, RatMul(xmean1, slope))]

\* SpeedSort.SectorSpeedModel.__init__: the two arrays sorted and truncated,
\* and the line through the means of their halves.  A float division by zero
\* leaves no number.
SectorSpeedModel(ref_spd, target_spd, cutoff) ==
    LET sorted_x == SortRat(ref_spd)
        sorted_y == SortRat(target_spd)
        reach == {i \in 1..Len(sorted_x) : RatGe(sorted_x[i], cutoff)}
        \* lines 397-401: the first speed at or above the cutoff; 0 where the
        \* loop finds none
        start_idx == IF reach = {} THEN 0
                     ELSE (CHOOSE i \in reach : \A j \in reach : i <= j) - 1
        x_data == SubSeq(sorted_x, start_idx + 1, Len(sorted_x))
        y_data == SubSeq(sorted_y, start_idx + 1, Len(sorted_y))
        line == TwoMeansFit(x_data, y_data)
    IN  [sector_ref |-> ref_spd, sector_target |-> target_spd,
         x_data |-> x_data, y_data |-> y_data,
         target_cutoff |-> y_data[1],
         data_pts |-> Min2(Len(x_data), Len(y_data)),
         slope |-> line.slope,
         offset |-> line.offset]

\* SpeedSort._get_veer_cutoff
_get_veer_cutoff(speed_col) ==
    RatMul(Rat(1, 2), RatAdd(R(6), RatMul(Rat(1, 2), RatMean(speed_col))))

\* SpeedSort._get_veer of one pair of directions
_get_veer(ref_d, target_d) ==
    LET v == RatSub(target_d, ref_d)
    IN  IF RatGt(v, R(180)) THEN RatSub(v, R(FullCircle))
        ELSE IF RatLt(v, R(-180)) THEN RatAdd(v, R(FullCircle))
        ELSE v

\* the mean veer of the rows whose two speeds reach the veer cutoffs
MeanVeer(rows, ref_veer_cutoff, target_veer_cutoff) ==
    LET strong == SelectSeq(rows, LAMBDA r : RatGe(r.ref[1], ref_veer_cutoff)
                                            /\ RatGe(r.tar, target_veer_cutoff))
    IN  [average_veer |-> RatMean([i \in 1..Len(strong) |->
                                     _get_veer(strong[i].ref_dir, strong[i].tar_dir)]),
         num_pts_for_veer |-> Len(strong)]

\* an argument left at its default None
None == <<>>

\* 360.0 * np.random.random(): the directions a calm period may be given
RandomDirs == {R(0), R(180)}

\* the rows of the aligned dataset as a series of one of their columns
RefSeries(data) == [j \in 1..Len(data) |-> [t |-> data[j].t, v |-> data[j].ref[1]]]

\* a randomization that takes every period for calm
CalmAlways(spd) == TRUE

\* lines 518 and 520: the speeds of a calm period
Calm(spd) == RatLt(spd, R(1))

\* SpeedSort._randomize_calm_periods: rnd_ref and rnd_tar hold the random
\* direction drawn for each calm row of either side
_randomize_calm_periods(data, rnd_ref, rnd_tar) ==
    [j \in 1..Len(data) |->
        [data[j] EXCEPT
            !.ref_dir = IF Calm(data[j].ref[1]) THEN rnd_ref[j] ELSE @,
            !.tar_dir = IF Calm(data[j].tar) THEN rnd_tar[j] ELSE @]]

\* an adjustment that takes every row for a bad reading
AnyRow(r) == TRUE

\* lines 530-531: a low reference speed under a high target speed
LowRefHighTarget(r) ==
    RatLt(r.ref[1], R(2)) /\ RatGt(r.tar, RatAdd(r.ref[1], R(4)))

\* SpeedSort._adjust_low_reference_speed_dir
_adjust_low_reference_speed_dir(data, overall_veer) ==
    [j \in 1..Len(data) |->
        IF LowRefHighTarget(data[j])
        THEN [data[j] EXCEPT
                !.ref_dir = _range_0_to_360(RatSub(data[j].tar_dir, overall_veer))]
        ELSE data[j]]

\* SpeedSort.__init__: the objects it may build, one for every outcome of
\* _randomize_calm_periods, each with the data as the steps of the
\* constructor left it.  A row of data is [t, ref, tar, ref_dir, tar_dir,
\* ref_dir_bin].
SpeedSortInit(ref_spd, ref_dir, target_spd, target_dir, sectors, lt_ref_speed) ==
    LET has(i) == ~IsNaN(ref_spd[i].v) /\ ~IsNaN(ref_dir[i].v)
                  /\ ~IsNaN(target_spd[i].v) /\ ~IsNaN(target_dir[i].v)
        kept == SelectSeq([i \in 1..Len(ref_spd) |-> i], has)
        \* CorrelBase._averager: speeds and directions merged by period
        merged == [j \in 1..Len(kept) |->
                      [t |-> ref_spd[kept[j]].t, ref |-> <<ref_spd[kept[j]].v>>,
                       tar |-> target_spd[kept[j]].v, ref_dir |-> ref_dir[kept[j]].v,
                       tar_dir |-> target_dir[kept[j]].v, ref_dir_bin |-> 0]]
        lt == IF lt_ref_speed = None THEN momm(RefSeries(merged)) ELSE lt_ref_speed
        ref_veer_cutoff == _get_veer_cutoff(RefColumn(merged, 1))
        target_veer_cutoff == _get_veer_cutoff(TarColumn(merged))
        calm_ref == {j \in 1..Len(merged) : Calm(merged[j].ref[1])}
        calm_tar == {j \in 1..Len(merged) : Calm(merged[j].tar)}
        Build(rnd_ref, rnd_tar) ==
            LET randomized == _randomize_calm_periods(merged, rnd_ref, rnd_tar)
                \* _get_overall_veer
                overall_veer == MeanVeer(randomized, ref_veer_cutoff,
                                         target_veer_cutoff).average_veer
                adjusted == _adjust_low_reference_speed_dir(randomized, overall_veer)
                binned == [j \in 1..Len(merged) |->
                    [adjusted[j] EXCEPT
                        !.ref_dir_bin = _binned_direction_series(adjusted[j].ref_dir, sectors)]]
            IN  [steps |-> [merged |-> merged, randomized |-> randomized,
                            adjusted |-> adjusted],
                 obj |-> [NoModel EXCEPT
                    !.kind = "SpeedSort", !.ref_spd = <<ref_spd>>, !.ref_dir = ref_dir,
                    !.target_spd = target_spd, !.target_dir = target_dir,
                    !.num_data_pts = Len(merged), !.params = NotYetRun,
                    !.sectors = sectors, !.lt_ref_speed = lt,
                    !.cutoff = PyMin(RatMul(Rat(1, 2), lt), R(4)),
                    !.ref_veer_cutoff = ref_veer_cutoff,
                    !.target_veer_cutoff = target_veer_cutoff,
                    !.overall_veer = overall_veer,
                    \* concat with the bins, then dropna
                    !.data = SelectSeq(binned, LAMBDA r : ~IsNaN(r.ref_dir)
                                                          /\ r.ref_dir_bin # 0)]]
    IN  {Build(rnd_ref, rnd_tar) : rnd_ref \in [calm_ref -> RandomDirs],
                                   rnd_tar \in [calm_tar -> RandomDirs]}

\* the rows of data in sector k
SectorGroup(data, k) == SelectSeq(data, LAMBDA r : r.ref_dir_bin = k)

\* a run that also keeps in data the rows alone that reach the cutoff
StoreFitAndData(self, speed_model, params) ==
    [self EXCEPT !.speed_model = speed_model, !.params = params,
                 !.data = SelectSeq(self.data, LAMBDA r : RatGe(r.ref[1], self.cutoff))]

\* what SpeedSort.run assigns: self.params and the entries of
\* self.speed_model
StoreFit(self, speed_model, params) ==
    [self EXCEPT !.speed_model = speed_model, !.params = params]

\* SpeedSort.run.  A sector's key in params is its number, written here as a
\* string.
SpeedSortRun(self) ==
    LET present == {self.data[j].ref_dir_bin : j \in 1..Len(self.data)}
        fit(k) == SectorSpeedModel(RefColumn(SectorGroup(self.data, k), 1),
                                   TarColumn(SectorGroup(self.data, k)), self.cutoff)
        speed_model == [k \in (DOMAIN self.speed_model) \cup present |->
                           IF k \in present THEN fit(k) ELSE self.speed_model[k]]
        veer(k) == MeanVeer(SectorGroup(self.data, k), self.ref_veer_cutoff,
                            self.target_veer_cutoff)
    IN  {[raised |-> "none", warned |-> FALSE,
          obj |-> StoreFit(self, speed_model,
                  {<<"Ref_cutoff_for_speed", self.cutoff>>,
                   <<"Ref_veer_cutoff", self.ref_veer_cutoff>>,
                   <<"Target_veer_cutoff", self.target_veer_cutoff>>,
                   <<"Overall_average_veer", self.overall_veer>>}
                  \cup {<<ToString(k),
                          [slope |-> fit(k).slope, offset |-> fit(k).offset,
                           target_cutoff |-> fit(k).target_cutoff,
                           num_pts_for_speed_fit |-> fit(k).data_pts,
                           num_total_pts |-> Len(SectorGroup(self.data, k)),
                           average_veer |-> veer(k).average_veer,
                           num_pts_for_veer |-> veer(k).num_pts_for_veer]>> :
                        k \in present})]}

\* tf.average_data_by_period(series, averaging_prd) at the period the series
\* is sampled at: a period holds one sample at most, and its average is the
\* mean of the samples it holds
average_data_by_period(s) ==
    [i \in 1..Len(s) |->
        [t |-> s[i].t, v |-> RatMean(IF IsNaN(s[i].v) THEN <<>> ELSE <<s[i].v>>)]]

\* the value of a series at a timestamp, no number where it has none
ValueAt(s, t) ==
    IF \E i \in 1..Len(s) : s[i].t = t
    THEN s[CHOOSE i \in 1..Len(s) : s[i].t = t].v
    ELSE NaN

\* the timestamps of two series together, in order, each as often as it occurs
UnionIndex(a, b) ==
    Index(SortObs([i \in 1..(Len(a) + Len(b)) |->
                      IF i <= Len(a) THEN a[i] ELSE b[i - Len(a)]]))

\* an overlay in which the other series comes first
combine_last(a, b) ==
    LET idx == UnionIndex(a, b)
        once == SelectSeq([i \in 1..Len(idx) |-> i], LAMBDA i : i = 1 \/ idx[i] # idx[i - 1])
    IN  [j \in 1..Len(once) |->
            [t |-> idx[once[j]],
             v |-> IF ~IsNaN(ValueAt(b, idx[once[j]])) THEN ValueAt(b, idx[once[j]])
                   ELSE ValueAt(a, idx[once[j]])]]

\* pandas' a.combine_first(b): over the union of the two indexes, a's value
\* where a has one, else b's
combine_first(a, b) ==
    LET idx == UnionIndex(a, b)
        once == SelectSeq([i \in 1..Len(idx) |-> i], LAMBDA i : i = 1 \/ idx[i] # idx[i - 1])
    IN  [j \in 1..Len(once) |->
            [t |-> idx[once[j]],
             v |-> IF ~IsNaN(ValueAt(a, idx[once[j]])) THEN ValueAt(a, idx[once[j]])
                   ELSE ValueAt(b, idx[once[j]])]]

\* a series as the one-column frame _predict is handed
AsRows(s) == [i \in 1..Len(s) |-> [t |-> s[i].t, ref |-> <<s[i].v>>]]

\* CorrelBase.synthesize(ext_input): [raised, value], value the synthesized
\* series.  _predict reads params['slope'] and params['offset'].
CorrelBaseSynthesize(self, ext_input) ==
    LET x == IF ext_input = None THEN average_data_by_period(self.ref_spd[1])
             ELSE ext_input
        predicted == Predict(self, AsRows(x))
        output == [i \in 1..Len(x) |-> [t |-> x[i].t, v |-> predicted[i]]]
    IN  IF ~({"slope", "offset"} \subseteq Keys(self.params))
        THEN [raised |-> "KeyError", value |-> <<>>]
        ELSE [raised |-> "none",
              value |-> IF ext_input = None
                        THEN combine_first(average_data_by_period(self.target_spd), output)
                        ELSE output]

\* MultipleLinearRegression.synthesize(ext_input), ext_input None or the rows
\* of a frame: the predictions over the reference up to the first timestamp
\* of data, then the target column of data.  min() of no timestamps raises.
MultipleLinearRegressionSynthesize(self, ext_input) ==
    LET K == Len(self.ref_spd)
        first == self.data[1].t
        upto == SelectSeq(self.ref_spd[1], LAMBDA o : o.t <= first)
        x == IF ext_input = None
             THEN [i \in 1..Len(upto) |->
                      [t |-> upto[i].t,
                       ref |-> [k \in 1..K |->
                                   ValueAt(average_data_by_period(self.ref_spd[k]), upto[i].t)]]]
             ELSE ext_input
        predicted == Predict(self, x)
        output == [i \in 1..Len(x) |-> [t |-> x[i].t, v |-> predicted[i]]]
    IN  IF ext_input = None /\ self.data = <<>>
        THEN [raised |-> "ValueError", value |-> <<>>]
        ELSE IF ~({"slope", "offset"} \subseteq Keys(self.params))
        THEN [raised |-> "KeyError", value |-> <<>>]
        ELSE [raised |-> "none",
              value |-> IF ext_input = None
                        THEN output \o [j \in 1..Len(self.data) |->
                                           [t |-> self.data[j].t, v |-> self.data[j].tar]]
                        ELSE output]

\* SpeedSort._predict(x_spd, x_dir): [raised, value].  A sector that run() gave
\* no model raises KeyError.
SpeedSortPredict(self, x_spd, x_dir) ==
    LET spd == DropNa(x_spd)
        dir == DropNa(x_dir)
        x == SelectSeq(spd, LAMBDA o : \E i \in 1..Len(dir) : dir[i].t = o.t)
        bin(o) == _binned_direction_series(ValueAt(dir, o.t), self.sectors)
    IN  IF \E i \in 1..Len(x) : bin(x[i]) \notin DOMAIN self.speed_model
        THEN [raised |-> "KeyError", value |-> <<>>]
        ELSE [raised |-> "none",
              value |-> SortObs([i \in 1..Len(x) |->
                  [t |-> x[i].t,
                   \* sector_predict: x * slope + offset
                   v |-> RatAdd(RatMul(x[i].v, self.speed_model[bin(x[i])].slope),
                                self.speed_model[bin(x[i])].offset)]])]

\* SpeedSort._predict_dir(x_dir): [raised, value, veer_bins], veer_bins the
\* directions the veers are interpolated between.  It reads the average
\* veer of every sector from 1 to sectors; a direction that no bin holds has
\* no number for a bin, and a list is not indexed by it.
_predict_dir(self, x_dir) ==
    LET width == Rat(FullCircle, self.sectors)
        sec_veer == [i \in 1..(self.sectors + 1) |->
                        Get(self.params, ToString(IF i > self.sectors THEN 1 ELSE i)).average_veer]
        array == self.direction_bin_array
        veer_bins == IF array = None
                     THEN [i \in 1..(self.sectors + 1) |-> RatMul(R(i - 1), width)]
                     \* line 602: direction_bin_array[i] + direction_bin_array[i+1] / 2.0
                     ELSE [i \in 1..(Len(array) - 1) |->
                              RatAdd(array[i], RatDiv(array[i + 1], R(2)))]
        x == DropNa(x_dir)
        veer_bin(o) == BinnedByEdges(o.v, veer_bins)
        adjustment(o) ==
            RatAdd(sec_veer[veer_bin(o)],
                   RatMul(RatDiv(RatSub(o.v, veer_bins[veer_bin(o)]), width),
                          RatSub(sec_veer[veer_bin(o) + 1], sec_veer[veer_bin(o)])))
    IN  IF \E i \in 1..self.sectors : ToString(i) \notin Keys(self.params)
        THEN [raised |-> "KeyError", value |-> <<>>, veer_bins |-> <<>>]
        ELSE IF \E i \in 1..Len(x) : veer_bin(x[i]) = 0
        THEN [raised |-> "TypeError", value |-> <<>>, veer_bins |-> veer_bins]
        ELSE [raised |-> "none", veer_bins |-> veer_bins,
              value |-> [i \in 1..Len(x) |->
                            [t |-> x[i].t,
                             v |-> _range_0_to_360(RatAdd(x[i].v, adjustment(x[i])))]]]

\* a synthesis that leaves a speed below zero as it is
KeepNegative(v) == v

\* line 645, output[output < 0] = 0, on one value
ClampNegative(v) == IF RatLt(v, R(0)) THEN R(0) ELSE v

\* SpeedSort.synthesize(input_spd, input_dir): [raised, value], value the
\* rows [t, spd, dir] of the synthesized frame
SpeedSortSynthesize(self, input_spd, input_dir) ==
    LET default == input_spd = None /\ input_dir = None
        x_spd == IF default THEN average_data_by_period(self.ref_spd[1]) ELSE input_spd
        x_dir == IF default THEN average_data_by_period(self.ref_dir) ELSE input_dir
        predicted == SpeedSortPredict(self, x_spd, x_dir)
        output == IF default
                  THEN combine_first(average_data_by_period(self.target_spd), predicted.value)
                  ELSE predicted.value
        dir_output == _predict_dir(self, x_dir)
        joined == SelectSeq(output, LAMBDA o : \E i \in 1..Len(dir_output.value) :
                                                   dir_output.value[i].t = o.t)
    IN  IF predicted.raised # "none" THEN [raised |-> predicted.raised, value |-> <<>>]
        ELSE IF dir_output.raised # "none" THEN [raised |-> dir_output.raised, value |-> <<>>]
        ELSE [raised |-> "none",
              value |-> [j \in 1..Len(joined) |->
                            [t |-> joined[j].t, spd |-> ClampNegative(joined[j].v),
                             dir |-> ValueAt(dir_output.value, joined[j].t)]]]

---------------------------------------------------------------------------
(* correlation.py: the methods by class *)

\* run() of the model's class
RunOf(self) ==
    IF self.kind = "OrdinaryLeastSquares" THEN OrdinaryLeastSquaresRun(self)
    ELSE IF self.kind = "OrthogonalLeastSquares" THEN OrthogonalLeastSquaresRun(self)
    ELSE IF self.kind = "MultipleLinearRegression" THEN MultipleLinearRegressionRun(self)
    ELSE IF self.kind = "SpeedSort" THEN SpeedSortRun(self)
    ELSE SimpleSpeedRatioRun(self)

\* CorrelBase.plot: the prediction it hands to the plotter reads the fitted
\* slope
CorrelBasePlot(self) ==
    [raised |-> IF "slope" \in Keys(self.params) THEN "none" ELSE "KeyError",
     warned |-> FALSE, obj |-> self]

\* a MultipleLinearRegression that inherits plot
PlotInherited(self) == CorrelBasePlot(self)

\* MultipleLinearRegression.plot
MultipleLinearRegressionPlot(self) ==
    [raised |-> "NotImplementedError", warned |-> FALSE, obj |-> self]

\* get_r2() as a caller's call: _predict reads the fitted slope first.
\* SpeedSort inherits CorrelBase.get_r2, which hands its _predict one
\* argument of the two it takes.  SimpleSpeedRatio has none.
GetR2Of(self) ==
    IF self.kind = "SpeedSort" THEN [raised |-> "TypeError", value |-> NaN]
    ELSE IF ~({"slope", "offset"} \subseteq Keys(self.params))
    THEN [raised |-> "KeyError", value |-> NaN]
    ELSE get_r2(self)

\* the inputs synthesize() of the model's class is called with: none, or
\* speeds (and directions) to predict from
ExtInputs(self) ==
    IF self.kind = "SpeedSort"
    THEN {[spd |-> None, dir |-> None],
          [spd |-> <<[t |-> 1, v |-> R(1)]>>, dir |-> <<[t |-> 1, v |-> R(0)]>>],
          [spd |-> <<[t |-> 1, v |-> R(4)], [t |-> 2, v |-> R(6)]>>,
           dir |-> <<[t |-> 1, v |-> R(180)], [t |-> 2, v |-> R(0)]>>]}
    ELSE IF self.kind = "MultipleLinearRegression"
    THEN {[spd |-> None, dir |-> None],
          [spd |-> <<[t |-> 1, ref |-> [k \in 1..Len(self.ref_spd) |-> R(4)]]>>,
           dir |-> None]}
    ELSE {[spd |-> None, dir |-> None],
          [spd |-> <<[t |-> 1, v |-> R(4)], [t |-> 2, v |-> NaN]>>, dir |-> None]}

\* synthesize() of the model's class; SimpleSpeedRatio has none
SynthesizeOf(self, input) ==
    IF self.kind = "SpeedSort" THEN SpeedSortSynthesize(self, input.spd, input.dir)
    ELSE IF self.kind = "MultipleLinearRegression"
    THEN MultipleLinearRegressionSynthesize(self, input.spd)
    ELSE CorrelBaseSynthesize(self, input.spd)

\* SpeedSort.plot: every sector's model, then the wind directions
SpeedSortPlot(self) == [raised |-> "none", warned |-> FALSE, obj |-> self]

\* plot() of the model's class; SimpleSpeedRatio has none
PlotOf(self) ==
    IF self.kind = "MultipleLinearRegression" THEN MultipleLinearRegressionPlot(self)
    ELSE IF self.kind = "SpeedSort" THEN SpeedSortPlot(self)
    ELSE CorrelBasePlot(self)

---------------------------------------------------------------------------
(* export.py: the tab file *)

\* A frequency table is its rows, one per speed bin: [right, vals], right the
\* bin's upper edge and vals the frequency of each sector column.

\* '%.0f' % x: x rounded to a whole number
Format0(q) == NpRound(q)

\* '%.2f' % x: x rounded to hundredths
Format2(q) == IF IsNaN(q) THEN NaN ELSE RatDiv(NpRound(RatMul(q, R(100))), R(100))

\* to_string(float_format='%.2f', na_rep=0.00): the number an entry of the
\* table body is written as
Written(q) == IF IsNaN(q) THEN R(0) ELSE Format2(q)

\* export_tab_file(freq_tab, ...): the line of per-sector sums and the table
\* body it writes
export_tab_file(freq_tab) ==
    LET sectors == Len(freq_tab[1].vals)
        column(c) == [b \in 1..Len(freq_tab) |-> freq_tab[b].vals[c]]
        freq_sum == [c \in 1..sectors |-> RatSum(column(c))]
        \* line 64: column / sum(column) * 1000.0; 0 / 0 is NaN
        scaled(b, c) == RatMul(RatDiv(freq_tab[b].vals[c], RatSum(column(c))), R(1000))
    IN  [sectors |-> sectors,
         freq_sum |-> [c \in 1..sectors |-> Format2(freq_sum[c])],
         body |-> [b \in 1..Len(freq_tab) |->
                      [right |-> freq_tab[b].right,
                       vals |-> [c \in 1..sectors |-> Written(scaled(b, c))]]]]

---------------------------------------------------------------------------
(* export.py: the CSV file *)

\* a file that is not there
Absent == "absent"

\* DataFrame.to_csv(pathfile): the file at the path holds the data
to_csv(files, pathfile, data) == [files EXCEPT ![pathfile] = data]

\* export_to_csv(data, file_path, file_name, **kwargs) on the files of the
\* one folder there is, a file called by its name without ".csv";
\* overwrite and new_filename are what the user types if asked.  The result
\* is [raised, files, prompts, printed]: files as they are after the call
\* and the number of questions asked.  os.path.isdir takes the path only.
export_to_csv(files, folder, data, file_path, file_name, kwargs, overwrite, new_filename) ==
    LET folder_present == file_path = folder
        files_present == files[file_name] # Absent
        done(fs, prompts, printed) ==
            [raised |-> "none", files |-> fs, prompts |-> prompts, printed |-> printed]
    IN  IF kwargs
        THEN [raised |-> "TypeError", files |-> files, prompts |-> 0, printed |-> FALSE]
        ELSE IF ~folder_present
        THEN [raised |-> "FileNotFoundError", files |-> files, prompts |-> 0,
              printed |-> FALSE]
        ELSE IF ~files_present
        THEN done(to_csv(files, file_name, data), 0, FALSE)
        ELSE IF overwrite = "y"
        THEN done(to_csv(files, file_name, data), 1, FALSE)
        ELSE IF overwrite = "n"
        THEN done(to_csv(files, new_filename, data), 2, FALSE)
        ELSE done(files, 1, TRUE)

---------------------------------------------------------------------------
(* The shear calls and what they are given *)

MaxRows == 2
MaxObs == 2

CalcMethods == {"power_law", "log_law", "cubic_law"}
MinSpeeds == {R(0), R(3)}
HeightLists == {<<R(2), R(4)>>, <<R(8), R(4)>>}
ApplyHeights == {2, 8}

SeqsUpTo(S, n) == UNION {[1..k -> S] : k \in 0..n}

\* rows of speeds at the two heights; one has a missing value
SpeedRows == {<<R(2), R(4)>>, <<R(4), R(4)>>, <<R(4), R(16)>>, <<NaN, R(8)>>}

\* every logarithm a power-law fit of these rows takes is of a power of two
Loggable(rows) == \A i \in 1..Len(rows) : \A k \in 1..Len(rows[i]) : HasLog(rows[i][k])

AverageFittable(wspds, heights, min_speed) ==
    Loggable(<<ColumnMeans(AboveMinSpeed(DropNaRows(wspds), min_speed), Len(heights))>>)

\* a year of rows at four hours of the day: speeds a in the mornings of the
\* first half-year, b otherwise; no rows at all in the month gap
TodHours == <<2, 8, 14, 20>>
TodMorning == {<<R(2), R(4)>>, <<R(4), R(4)>>}
TodSpeeds == {<<R(4), R(4)>>, <<R(4), R(8)>>}
TodGaps == {0, 3}
TodData(a, b, gap) ==
    SelectSeq([k \in 1..(MonthsPerYear * Len(TodHours)) |->
                  LET m == ((k - 1) \div Len(TodHours)) + 1
                      h == TodHours[((k - 1) % Len(TodHours)) + 1]
                  IN  [m |-> m, h |-> h, spd |-> IF m <= 6 /\ h = 8 THEN a ELSE b]],
              LAMBDA r : r.m # gap)
DayStarts == {7, 20}
\* TimeOfDay is also given a min_speed that no row of its data exceeds
TodMinSpeeds == MinSpeeds \cup {R(8)}
MaxSegments == 3
TodFittable(wspds, heights, min_speed, day_start_time, daily_segments) ==
    \A j \in 1..MonthsPerYear, i \in 1..daily_segments :
        Loggable(<<SegmentMeans(wspds, j, i, StartTimes(day_start_time, daily_segments),
                                heights, min_speed)>>)

\* rows with a direction, for BySector
DirValues == {R(100), R(350)}
SectorCounts == {4, 12}
SectorRows == [spd : {<<R(2), R(4)>>, <<R(4), R(4)>>}, dir : DirValues]
SectorFittable(wspds, heights, calc_method, sectors, min_speed) ==
    LET r == BySectorInit(wspds, heights, calc_method, sectors, min_speed)
    IN  r.raised = "none" =>
            \A k \in 1..sectors : IsNaN(r.obj.alpha[k].mean) \/ IsInt(r.obj.alpha[k].mean)

\* the series to scale: observations in time order, t the timestamp
\* <<month, hour, speed>>
ObsKinds == {<<1, 8, R(5)>>, <<7, 20, R(3)>>}
ObsSeqs ==
    {[i \in 1..Len(s) |-> [t |-> i, m |-> s[i][1], h |-> s[i][2], v |-> s[i][3], d |-> NaN]] :
        s \in SeqsUpTo(ObsKinds, MaxObs)}
DirChoices(n) == {NoDir} \cup {Dir([i \in 1..n |-> d]) : d \in DirValues}

\* Objects share nothing, so a behaviour follows one object: a constructor
\* call, then a call of _apply on the object it returned.  _apply reads the
\* object and its arguments and changes neither, so a second call would
\* start from the state the first started from.
Constructed(op, args, r) ==
    /\ call' = [NoCall EXCEPT !.op = op, !.args = args, !.raised = r.raised, !.fit = r.fit,
                              !.self = r.obj,
                              !.made = IF r.raised = "none" THEN r.obj ELSE NoEst]
    /\ est' = IF r.raised = "none" THEN r.obj ELSE est
    /\ UNCHANGED correlVars

\* the calls of Average that are made: their fit takes logarithms of powers of
\* two only
AverageCalls ==
    {c \in [wspds : SeqsUpTo(SpeedRows, MaxRows), heights : HeightLists,
            calc_method : CalcMethods, min_speed : MinSpeeds] :
        AverageFittable(c.wspds, c.heights, c.min_speed)}

\* Average(wspds, heights, calc_method, min_speed)
ConstructAverage ==
    /\ call.op = "none"
    /\ \E c \in AverageCalls :
        Constructed("Average", c,
                    AverageInit(c.wspds, c.heights, c.calc_method, c.min_speed))

TimeOfDayCalls ==
    {c \in [a : TodMorning, b : TodSpeeds, gap : TodGaps, heights : {<<R(2), R(4)>>},
            calc_method : CalcMethods, min_speed : TodMinSpeeds, by_month : BOOLEAN,
            day_start_time : DayStarts, daily_segments : 1..MaxSegments] :
        TodFittable(TodData(c.a, c.b, c.gap), c.heights, c.min_speed, c.day_start_time,
                    c.daily_segments)}

\* TimeOfDay(wspds, heights, calc_method, min_speed, by_month, day_start_time,
\*           daily_segments)
ConstructTimeOfDay ==
    /\ call.op = "none"
    /\ \E c \in TimeOfDayCalls :
        Constructed("TimeOfDay", c,
                    TimeOfDayInit(TodData(c.a, c.b, c.gap), c.heights, c.calc_method,
                                  c.min_speed, c.by_month, c.day_start_time,
                                  c.daily_segments))

BySectorCalls ==
    {c \in [wspds : SeqsUpTo(SectorRows, MaxRows), heights : {<<R(2), R(4)>>},
            calc_method : CalcMethods, sectors : SectorCounts, min_speed : MinSpeeds] :
        SectorFittable(c.wspds, c.heights, c.calc_method, c.sectors, c.min_speed)}

\* BySector(wspds, heights, wdir, calc_method, sectors, min_speed)
ConstructBySector ==
    /\ call.op = "none"
    /\ \E c \in BySectorCalls :
        Constructed("BySector", c,
                    BySectorInit(c.wspds, c.heights, c.calc_method, c.sectors,
                                 c.min_speed))

\* _apply(est, wspds, height, height_to_scale_to, wdir)
Apply ==
    /\ est.origin # "none"
    /\ call.op # "apply"
    /\ \E wspds \in ObsSeqs, height \in ApplyHeights, height_to_scale_to \in ApplyHeights :
       \E wdir \in DirChoices(Len(wspds)) :
        LET r == _apply(est, wspds, height, height_to_scale_to, wdir)
        IN  call' = [NoCall EXCEPT !.op = "apply", !.self = est,
                          !.args = [wspds |-> wspds, height |-> height,
                                    height_to_scale_to |-> height_to_scale_to,
                                    wdir |-> wdir],
                          !.raised = r.raised, !.warned = r.warned, !.result = r.result]
    /\ UNCHANGED <<est, correlVars>>

ShearNext == ConstructAverage \/ ConstructTimeOfDay \/ ConstructBySector \/ Apply

---------------------------------------------------------------------------
(* The correlation calls and what they are given *)

MaxT == 3
MaxRefs == 2

SpeedValues == {NaN, R(2), R(4)}

\* series over the timestamps 1..MaxT with at least one value
SpeedSeries ==
    {s \in {[i \in 1..MaxT |-> [t |-> i, v |-> f[i]]] : f \in [1..MaxT -> SpeedValues]} :
        DropNa(s) # <<>>}

\* a reference and a target whose spans of valid timestamps overlap; they may
\* still have no timestamp with a value in common
RegressionCalls ==
    {c \in [ref_spd : SpeedSeries, target_spd : SpeedSeries] :
        /\ IndexMin(DropNa(c.ref_spd)) <= IndexMax(DropNa(c.target_spd))
        /\ IndexMin(DropNa(c.target_spd)) <= IndexMax(DropNa(c.ref_spd))}

\* those with a timestamp in common: what scipy.odr makes of no points is
\* not modelled
OrthogonalCalls ==
    {c \in RegressionCalls : merge_datasets_by_period(<<c.ref_spd>>, c.target_spd) # <<>>}

\* A behaviour follows one model object: its constructor, then calls of its
\* methods in any order.
CorrelCall(op, self, args, result, r) ==
    /\ ccall' = [op |-> op, raised |-> r.raised, warned |-> r.warned, self |-> self,
                 args |-> args, result |-> result]
    /\ model' = r.obj
    /\ UNCHANGED shearVars

CorrelReturn(op, self, r) == CorrelCall(op, self, <<>>, <<>>, r)

CorrelConstructed(kind, obj) ==
    CorrelReturn(kind, NoModel, [raised |-> "none", warned |-> FALSE, obj |-> obj])

\* OrdinaryLeastSquares(ref_spd, target_spd, averaging_prd)
ConstructOrdinaryLeastSquares ==
    /\ model.kind = "none"
    /\ \E c \in RegressionCalls :
        CorrelConstructed("OrdinaryLeastSquares",
                          CorrelBaseInit("OrdinaryLeastSquares", <<c.ref_spd>>, c.target_spd))

\* OrthogonalLeastSquares(ref_spd, target_spd, averaging_prd)
ConstructOrthogonalLeastSquares ==
    /\ model.kind = "none"
    /\ \E c \in OrthogonalCalls :
        CorrelConstructed("OrthogonalLeastSquares",
                          CorrelBaseInit("OrthogonalLeastSquares", <<c.ref_spd>>,
                                         c.target_spd))

\* the lists of K references: K series with names of their own, K series
\* that share a name, and one series listed K times
RefLists(K) ==
    {[ref_spds |-> [k \in 1..K |-> k], names |-> [k \in 1..K |-> Name(k)]],
     [ref_spds |-> [k \in 1..K |-> k], names |-> [k \in 1..K |-> Name(1)]],
     [ref_spds |-> [k \in 1..K |-> 1], names |-> <<Name(1)>>]}

\* MultipleLinearRegression(ref_spd, target_spd, averaging_prd) with a list of
\* K references that hold the same values
ConstructMultipleLinearRegression ==
    /\ model.kind = "none"
    /\ \E c \in RegressionCalls, K \in 1..MaxRefs :
       \E l \in RefLists(K) :
        CorrelCall("MultipleLinearRegression", NoModel, l, <<>>,
                   [raised |-> "none", warned |-> FALSE,
                    obj |-> MultipleLinearRegressionInit(l.ref_spds, l.names, c.ref_spd,
                                                         c.target_spd)])

\* those whose overlap window holds two timestamps of the target or more
SimpleSpeedRatioCalls ==
    {c \in RegressionCalls :
        Len(SimpleSpeedRatioInit(c.ref_spd, c.target_spd).data[2]) >= 2}

\* SimpleSpeedRatio(ref_spd, target_spd)
ConstructSimpleSpeedRatio ==
    /\ model.kind = "none"
    /\ \E c \in SimpleSpeedRatioCalls :
        CorrelConstructed("SimpleSpeedRatio", SimpleSpeedRatioInit(c.ref_spd, c.target_spd))

\* The rows a SpeedSort is given, [ref, ref_dir, tar, tar_dir] per timestamp:
\* two of the first sector, one of the second, a reference without a target,
\* a calm reference under a strong target, and a calm target.
MaxSsT == 4

SsRowKinds ==
    <<[ref |-> R(2), ref_dir |-> R(0), tar |-> R(1), tar_dir |-> R(0)],
      [ref |-> R(4), ref_dir |-> R(0), tar |-> R(5), tar_dir |-> R(10)],
      [ref |-> R(4), ref_dir |-> R(180), tar |-> R(4), tar_dir |-> R(180)],
      [ref |-> R(1), ref_dir |-> R(0), tar |-> NaN, tar_dir |-> NaN],
      [ref |-> Rat(1, 2), ref_dir |-> R(90), tar |-> R(6), tar_dir |-> R(180)],
      [ref |-> R(4), ref_dir |-> R(180), tar |-> Rat(1, 2), tar_dir |-> R(90)]>>

\* MaxSsT rows, listed in the order of their kinds
SsRows ==
    {[i \in 1..MaxSsT |-> SsRowKinds[f[i]]] :
        f \in {g \in [1..MaxSsT -> 1..Len(SsRowKinds)] :
                  \A i \in 1..(MaxSsT - 1) : g[i] <= g[i + 1]}}

\* the column of the rows as a series over the timestamps 1..MaxSsT
SsColumn(rows, col) == [i \in 1..MaxSsT |-> [t |-> i, v |-> rows[i][col]]]

\* the rows with a target at one timestamp or more, and the long-term
\* reference speed left to the constructor or given
SpeedSortCalls ==
    {c \in [rows : SsRows, lt_ref_speed : {None, R(8)}] :
        \E i \in 1..MaxSsT : ~IsNaN(c.rows[i].tar)}

\* SpeedSort(ref_spd, ref_dir, target_spd, target_dir, averaging_prd, sectors=2,
\* lt_ref_speed)
ConstructSpeedSort ==
    /\ model.kind = "none"
    /\ \E c \in SpeedSortCalls :
       \E made \in SpeedSortInit(SsColumn(c.rows, "ref"), SsColumn(c.rows, "ref_dir"),
                                 SsColumn(c.rows, "tar"), SsColumn(c.rows, "tar_dir"),
                                 2, c.lt_ref_speed) :
        CorrelCall("SpeedSort", NoModel, c, made.steps,
                   [raised |-> "none", warned |-> FALSE, obj |-> made.obj])

\* model.run()
Run ==
    /\ model.kind # "none"
    /\ \E r \in RunOf(model) : CorrelReturn("run", model, r)

\* model.plot()
Plot ==
    /\ model.kind \notin {"none", "SimpleSpeedRatio"}
    /\ CorrelReturn("plot", model, PlotOf(model))

\* before any constructor has run: no estimator, no model, no call made
Init == est = NoEst /\ call = NoCall /\ model = NoModel /\ ccall = NoCCall

\* model.synthesize(...): the model is left as it is
Synthesize ==
    /\ model.kind \notin {"none", "SimpleSpeedRatio"}
    /\ \E input \in ExtInputs(model) :
        LET r == SynthesizeOf(model, input)
        IN  CorrelCall("synthesize", model, input, r.value,
                       [raised |-> r.raised, warned |-> FALSE, obj |-> model])

\* model.get_r2()
GetR2 ==
    /\ model.kind \notin {"none", "SimpleSpeedRatio"}
    /\ LET r == GetR2Of(model)
       IN  CorrelCall("get_r2", model, <<>>, r.value,
                      [raised |-> r.raised, warned |-> FALSE, obj |-> model])

\* model.show_params(): prints params
ShowParams ==
    /\ model.kind # "none"
    /\ CorrelReturn("show_params", model,
                    [raised |-> "none", warned |-> FALSE, obj |-> model])

CorrelNext ==
    \/ ConstructOrdinaryLeastSquares
    \/ ConstructOrthogonalLeastSquares
    \/ ConstructMultipleLinearRegression
    \/ ConstructSimpleSpeedRatio
    \/ ConstructSpeedSort
    \/ Run
    \/ Plot
    \/ Synthesize
    \/ GetR2
    \/ ShowParams

SpecShear == Init /\ [][ShearNext]_vars

SpecCorrel == Init /\ [][CorrelNext]_vars

---------------------------------------------------------------------------
(* _fill_alpha_12x24 on the grids TimeOfDay builds *)

\* the grid of a TimeOfDay object with day_start_time and daily_segments: a
\* row per segment, sorted by start hour; each row holds, under its one
\* '12 Month Average' column, the number of its segment
CoarseGrid(day_start_time, daily_segments) ==
    MonthlyGrid([j \in 1..MonthsPerYear |-> [i \in 1..daily_segments |-> R(i)]],
                StartTimes(day_start_time, daily_segments), FALSE)

FillCalls == [day_start_time : 0..(HoursPerDay - 1), daily_segments : 1..HoursPerDay]

\* _fill_alpha_12x24(df).  A call reads its argument only, so a behaviour
\* makes one.
Fill ==
    /\ call.op = "none"
    /\ \E c \in FillCalls :
        call' = [NoCall EXCEPT
                    !.op = "_fill_alpha_12x24", !.args = c,
                    !.result = _fill_alpha_12x24(CoarseGrid(c.day_start_time,
                                                            c.daily_segments))]
    /\ UNCHANGED <<est, correlVars>>

FillNext == Fill

SpecFill == Init /\ [][FillNext]_vars

---------------------------------------------------------------------------
(* A sector's fit and the veer on inputs of their own *)

MaxPts == 3

SectorSpeeds == {R(1), R(2), R(5)}

\* the speeds of a sector's rows, reference and target row by row, and a
\* cutoff
SectorFitCalls ==
    UNION {[ref_spd : [1..n -> SectorSpeeds], target_spd : [1..n -> SectorSpeeds],
            cutoff : {R(2), R(4)}] : n \in 1..MaxPts}

\* SpeedSort.SectorSpeedModel(ref_spd, target_spd, cutoff)
FitSector ==
    /\ call.op = "none"
    /\ \E c \in SectorFitCalls :
        call' = [NoCall EXCEPT
                    !.op = "SectorSpeedModel", !.args = c,
                    !.result = SectorSpeedModel(c.ref_spd, c.target_spd, c.cutoff)]
    /\ UNCHANGED <<est, correlVars>>

SectorFitNext == FitSector

SpecSectorFit == Init /\ [][SectorFitNext]_vars

\* directions in [0, 360), every 30 degrees and the two nearest 360
VeerDirs == {R(30 * k) : k \in 0..11} \cup {R(1), R(359)}

\* SpeedSort._get_veer(ref_d, target_d) on one pair of directions
Veer ==
    /\ call.op = "none"
    /\ \E ref_d \in VeerDirs, target_d \in VeerDirs :
        call' = [NoCall EXCEPT
                    !.op = "_get_veer",
                    !.args = [ref_d |-> ref_d, target_d |-> target_d],
                    !.result = _get_veer(ref_d, target_d)]
    /\ UNCHANGED <<est, correlVars>>

VeerNext == Veer

SpecVeer == Init /\ [][VeerNext]_vars

\* direction_bin_array: the edges of the sectors, from 0 to 360
DirectionBinArrays ==
    {<<R(0), R(FullCircle)>>, <<R(0), R(90), R(FullCircle)>>,
     <<R(0), R(180), R(FullCircle)>>, <<R(0), R(90), R(130), R(200), R(FullCircle)>>}

MaxSectors == 4

\* a fitted SpeedSort as _predict_dir reads it: its sectors, its
\* direction_bin_array and the average veer of each sector
PredictDirCalls ==
    UNION {[direction_bin_array : {a \in DirectionBinArrays \cup {None} :
                                      a = None \/ Len(a) - 1 = n},
            veer : [1..n -> {R(0), R(10), R(-20)}],
            x_dir : {R(0), R(45), R(100), R(300)}] : n \in 1..MaxSectors}

\* SpeedSort._predict_dir(x_dir) on a series of one direction
PredictDir ==
    /\ call.op = "none"
    /\ \E c \in PredictDirCalls :
        LET self == [NoModel EXCEPT
                        !.kind = "SpeedSort", !.sectors = Len(c.veer),
                        !.direction_bin_array = c.direction_bin_array,
                        !.params = {<<ToString(k), [average_veer |-> c.veer[k]]>> :
                                    k \in 1..Len(c.veer)}]
            r == _predict_dir(self, <<[t |-> 1, v |-> c.x_dir]>>)
        IN  call' = [NoCall EXCEPT !.op = "_predict_dir", !.args = c,
                                   !.raised = r.raised, !.result = r]
    /\ UNCHANGED <<est, correlVars>>

PredictDirNext == PredictDir

SpecPredictDir == Init /\ [][PredictDirNext]_vars

---------------------------------------------------------------------------
(* The tab file export and what it is given *)

MaxBins == 3

\* frequency tables of one or two sector columns over speed bins of width 1;
\* a sector without observations is a column of zeros
FreqValues == {R(0), R(1), R(2)}
FreqTables ==
    UNION {{[b \in 1..n |-> [right |-> b, vals |-> f[b]]] : f \in [1..n -> [1..s -> FreqValues]]} :
              n \in 1..MaxBins, s \in 1..2}

\* export_tab_file(freq_tab, name, lat, long).  A call reads its argument
\* only, so a behaviour makes one.
Export ==
    /\ call.op = "none"
    /\ \E freq_tab \in FreqTables :
        call' = [NoCall EXCEPT !.op = "export_tab_file", !.args = [freq_tab |-> freq_tab],
                               !.result = export_tab_file(freq_tab)]
    /\ UNCHANGED <<est, correlVars>>

ExportNext == Export

SpecExport == Init /\ [][ExportNext]_vars

---------------------------------------------------------------------------
(* The CSV export, its folder and its user *)

FileNames == {"brightwindexport", "other"}

Folder == "folder"

\* the files of the folder before the first call
FirstFiles == [FileNames -> {Absent, "old"}]

CsvCalls ==
    [data : {"df1", "df2"}, file_path : {Folder, "nowhere"}, file_name : FileNames,
     kwargs : BOOLEAN, overwrite : {"y", "n", "q"}, new_filename : FileNames]

\* export_to_csv(data, file_path, file_name): a call finds the files as the
\* call before it left them.
ExportToCsv ==
    /\ call.op \in {"none", "export_to_csv"}
    /\ \E c \in CsvCalls :
       \E files \in IF call.op = "none" THEN FirstFiles ELSE {call.result.files} :
            call' = [NoCall EXCEPT
                        !.op = "export_to_csv",
                        !.args = [files |-> files] @@ c,
                        !.raised = export_to_csv(files, Folder, c.data, c.file_path,
                                                 c.file_name, c.kwargs, c.overwrite,
                                                 c.new_filename).raised,
                        !.result = export_to_csv(files, Folder, c.data, c.file_path,
                                                 c.file_name, c.kwargs, c.overwrite,
                                                 c.new_filename)]
    /\ UNCHANGED <<est, correlVars>>

CsvNext == ExportToCsv

SpecCsv == Init /\ [][CsvNext]_vars

---------------------------------------------------------------------------
(* Claims about the shear estimators and the scaler *)

IsConstructor(op) == op \in {"Average", "TimeOfDay", "BySector"}

\* a row of the constructor's data that the min_speed filter keeps
Qualifies(row, min_speed) ==
    \A k \in 1..Len(row) : ~IsNaN(row[k]) /\ RatGt(row[k], min_speed)

\* C1: apply on an Average power-law estimator returns, per observation,
\* original * (height_to_scale_to / height) ** alpha.
C1_PowerLawScaling ==
    (call.op = "apply" /\ call.self.origin = "Average"
        /\ call.self.calc_method = "power_law")
    => /\ call.raised = "none"
       /\ Len(call.result) = Len(call.args.wspds)
       /\ \A i \in 1..Len(call.args.wspds) :
            call.result[i].v =
                RatMul(call.args.wspds[i].v,
                       RatPow(Rat(call.args.height_to_scale_to, call.args.height),
                              call.self.alpha))

\* C3: Average with calc_method 'log_law' on data with a qualifying row
\* completes and yields an 'Average' object holding slope, intercept and
\* roughness coefficient.
C3_LogLawConstructs ==
    (call.op = "Average" /\ call.args.calc_method = "log_law"
        /\ \E i \in 1..Len(call.args.wspds) :
              Qualifies(call.args.wspds[i], call.args.min_speed))
    => /\ call.raised = "none"
       /\ call.made.origin = "Average"
       /\ {"slope", "intercept", "roughness_coefficient"} \subseteq call.made.attrs

\* C4: every estimator constructor given a calc_method other than
\* 'power_law' and 'log_law' raises ValueError and produces no object.
C4_InvalidMethodRejected ==
    (IsConstructor(call.op) /\ call.args.calc_method \notin {"power_law", "log_law"})
    => call.raised = "ValueError" /\ call.made.origin = "none"

\* C5: Average on data without a qualifying row raises ValueError before any
\* fit, whatever the calc_method.
C5_NoQualifyingRowRejected ==
    (call.op = "Average"
        /\ \A i \in 1..Len(call.args.wspds) :
              ~Qualifies(call.args.wspds[i], call.args.min_speed))
    => call.raised = "ValueError" /\ ~call.fit /\ call.made.origin = "none"

C5_Witness ==
    /\ call.op = "Average" /\ call.args.calc_method = "log_law"
    /\ Len(call.args.wspds) = 2
    /\ \A i \in 1..2 : ~IsNaN(call.args.wspds[i][1])
                       /\ ~Qualifies(call.args.wspds[i], call.args.min_speed)
    /\ call.raised = "ValueError"

\* C27: TimeOfDay on data without a qualifying row raises ValueError before
\* any fit of a cell.
C27_TimeOfDayNoQualifyingRowRejected ==
    (call.op = "TimeOfDay"
        /\ call.args.calc_method \in {"power_law", "log_law"}
        /\ LET wspds == TodData(call.args.a, call.args.b, call.args.gap)
           IN  \A i \in 1..Len(wspds) : ~Qualifies(wspds[i].spd, call.args.min_speed))
    => call.raised = "ValueError" /\ ~call.fit

\* C6: scaling with a BySector estimator and no direction series raises
\* ValueError; nothing is scaled and no result is returned.
C6_BySectorNeedsDirection ==
    (call.op = "apply" /\ call.self.origin = "BySector" /\ ~call.args.wdir.given)
    => call.raised = "ValueError" /\ call.result = <<>>

C6_Witness ==
    /\ call.op = "apply" /\ call.self.origin = "BySector" /\ ~call.args.wdir.given
    /\ Len(call.args.wspds) = 2 /\ call.self.calc_method = "power_law"
    /\ call.raised = "ValueError"

\* C7: _apply given a direction series for an Average or TimeOfDay estimator
\* warns and returns the series it returns without a direction series.
C7_DirectionIgnoredWithWarning ==
    (call.op = "apply" /\ call.self.origin \in {"Average", "TimeOfDay"}
        /\ call.args.wdir.given)
    => LET plain == _apply(call.self, call.args.wspds, call.args.height,
                           call.args.height_to_scale_to, NoDir)
       IN  /\ call.warned
           /\ call.raised = plain.raised
           /\ call.result = plain.result

---------------------------------------------------------------------------
(* Claims about the correlation models *)

LinearKinds == {"OrdinaryLeastSquares", "OrthogonalLeastSquares", "MultipleLinearRegression"}

\* C2: the overlap window of a SimpleSpeedRatio starts at the later of the
\* two first valid timestamps and ends at the earlier of the two last valid
\* timestamps, so its end exceeds neither series' last valid timestamp.
C2_OverlapWindow ==
    model.kind = "SimpleSpeedRatio"
    => /\ model.end_ts = Min2(IndexMax(DropNa(model.ref_spd)),
                              IndexMax(DropNa(model.target_spd)))
       /\ model.start_ts = Max2(IndexMin(DropNa(model.ref_spd)),
                                IndexMin(DropNa(model.target_spd)))

\* C8: plot on a MultipleLinearRegression raises NotImplementedError on every
\* call, before run and after it, and leaves params and the aligned dataset
\* as they were.
C8_PlotNotImplemented ==
    (ccall.op = "plot" /\ ccall.self.kind = "MultipleLinearRegression")
    => /\ ccall.raised = "NotImplementedError"
       /\ model.params = ccall.self.params
       /\ model.data = ccall.self.data

C8_Witness ==
    /\ ccall.op = "plot" /\ ccall.self.kind = "MultipleLinearRegression"
    /\ "slope" \in Keys(ccall.self.params)
    /\ Len(ccall.self.ref_spd) = 2
    /\ ccall.raised = "NotImplementedError"

\* C9: after run() returns on a linear model, params holds slope, offset, r2
\* and num_data_points, and num_data_points is the number of rows of the
\* aligned dataset.
C9_RunFillsParams ==
    (ccall.op = "run" /\ ccall.raised = "none" /\ model.kind \in LinearKinds)
    => /\ {"slope", "offset", "r2", "num_data_points"} \subseteq Keys(model.params)
       /\ Get(model.params, "num_data_points") = Len(model.data)

\* the keys a successful run() of the model's class leaves in params
RunKeys(self) ==
    LET kind == self.kind IN
    IF kind = "SimpleSpeedRatio"
    THEN {"simple_speed_ratio", "ref_long_term_momm", "target_long_term",
          "target_overlap_coverage"}
    ELSE IF kind = "MultipleLinearRegression" THEN {"slope", "offset"}
    ELSE IF kind = "SpeedSort"
    THEN {"Ref_cutoff_for_speed", "Ref_veer_cutoff", "Target_veer_cutoff",
          "Overall_average_veer"}
         \cup {ToString(self.data[j].ref_dir_bin) : j \in 1..Len(self.data)}
    ELSE {"slope", "offset", "r2", "num_data_points"}

\* C10: in every state a caller can observe, params is the 'not yet run'
\* sentinel or the complete set of one successful run(), and a run() that
\* raises leaves params as it was before the call.
C10_ParamsReplacedAtomically ==
    model.kind # "none"
    => /\ model.params = NotYetRun \/ Keys(model.params) = RunKeys(model)
       /\ (ccall.op = "run" /\ ccall.raised # "none")
            => model.params = ccall.self.params

---------------------------------------------------------------------------
(* Claims about _fill_alpha_12x24 *)

\* hour h lies in segment i of the day: from the segment's start to the next
\* segment's start, the last segment to the first start; one segment is the
\* whole day
InSegment(h, i, starts) ==
    \/ Len(starts) = 1
    \/ BetweenTime(h, starts[i], IF i = Len(starts) THEN starts[1] ELSE starts[i + 1])

\* C14: for every number of segments from 1 to 24 and every start hour,
\* _fill_alpha_12x24 returns the 24 rows 00:00..23:00 in order, and every
\* row holds the value of the segment whose interval contains its hour.
C14_FillCoversEverySegment ==
    call.op = "_fill_alpha_12x24"
    => LET starts == StartTimes(call.args.day_start_time, call.args.daily_segments)
       IN  /\ Len(call.result) = HoursPerDay
           /\ \A x \in 1..HoursPerDay :
                /\ call.result[x].hour = x - 1
                /\ \E i \in 1..Len(starts) :
                      InSegment(x - 1, i, starts) /\ call.result[x].vals = <<R(i)>>

---------------------------------------------------------------------------
(* Claims about scaling by time of day and by sector *)

\* the row of a sorted segment grid whose segment contains hour h: the last
\* row that starts at or before h, the last row of the day for the hours
\* before the first start
SegmentRowOf(grid, h) ==
    LET upto == {k \in 1..Len(grid) : grid[k].hour <= h}
    IN  IF upto = {} THEN Len(grid)
        ELSE CHOOSE k \in upto : \A l \in upto : l <= k

\* the value of a segment grid for hour h and month m: the month's column,
\* the one '12 Month Average' column of a grid not built by month
GridValue(grid, h, m) ==
    LET vals == grid[SegmentRowOf(grid, h)].vals
    IN  IF Len(vals) = MonthsPerYear THEN vals[m] ELSE vals[1]

\* C17: applying a TimeOfDay estimator, built by month or not, returns one
\* scaled value per observation, in time order, each scaled with the grid
\* value for the observation's hour of day and month.
C17_TimeOfDayScalesEveryObservation ==
    (call.op = "apply" /\ call.self.origin = "TimeOfDay"
        /\ call.self.calc_method \in {"power_law", "log_law"})
    => LET a == call.args
           self == call.self
           expected(o) ==
               IF self.calc_method = "power_law"
               THEN PowerScale(o.v, a.height, a.height_to_scale_to,
                               GridValue(self.alpha, o.h, o.m))
               ELSE log_scale(o.v, a.height, a.height_to_scale_to,
                              GridValue(self.slope, o.h, o.m),
                              GridValue(self.intercept, o.h, o.m))
       IN  /\ call.raised = "none"
           /\ Len(call.result) = Len(a.wspds)
           /\ \A i \in 1..Len(a.wspds) :
                /\ call.result[i].t = a.wspds[i].t
                /\ call.result[i].v = expected(a.wspds[i])

\* C18: applying a BySector estimator with a direction series assigns every
\* observation to the one sector of the estimator that contains its
\* direction, scales it with that sector's value, and returns one scaled
\* value per observation in time order.
C18_BySectorScalesEveryObservation ==
    (call.op = "apply" /\ call.self.origin = "BySector" /\ call.args.wdir.given)
    => LET a == call.args
           self == call.self
           edges == SectorEdges(self.sectors)
           sectorOf(d) == CHOOSE k \in 1..self.sectors : InSector(d, edges[k])
       IN  /\ call.raised = "none"
           /\ Len(call.result) = Len(a.wspds)
           /\ \A i \in 1..Len(a.wspds) :
                /\ Cardinality({k \in 1..self.sectors :
                                   InSector(a.wdir.vals[i], edges[k])}) = 1
                /\ call.result[i].t = a.wspds[i].t
                /\ call.result[i].v =
                      _scale(<<a.wspds[i]>>, a.height, a.height_to_scale_to,
                             self.calc_method, self.alpha[sectorOf(a.wdir.vals[i])].mean,
                             self.alpha[sectorOf(a.wdir.vals[i])].mean, R(0))[1].v

---------------------------------------------------------------------------
(* Claims about the tab file *)

\* the sum of the entries written for sector column c
WrittenColumnSum(c) ==
    RatSum([b \in 1..Len(call.result.body) |-> call.result.body[b].vals[c]])

\* a sum of n entries, each rounded to hundredths, is within n/200 of 1000
SumsTo1000(total, n) ==
    /\ RatGe(total, RatSub(R(1000), Rat(n, 200)))
    /\ RatGe(RatAdd(R(1000), Rat(n, 200)), total)

\* C13 as stated: for every frequency table and every sector column, the
\* entries written for the column sum to 1000.0 up to their rounding.
C13_EveryColumnSumsTo1000 ==
    call.op = "export_tab_file"
    => \A c \in 1..call.result.sectors :
          SumsTo1000(WrittenColumnSum(c), Len(call.result.body))

\* C13, amended: the entries written for a sector column whose frequencies
\* are not all zero sum to 1000.0 up to their rounding; a column of zeros is
\* written as zeros.
C13_NonEmptyColumnSumsTo1000 ==
    call.op = "export_tab_file"
    => \A c \in 1..call.result.sectors :
          LET freqs == [b \in 1..Len(call.args.freq_tab) |-> call.args.freq_tab[b].vals[c]]
          IN  IF \E b \in 1..Len(freqs) : freqs[b] # R(0)
              THEN SumsTo1000(WrittenColumnSum(c), Len(call.result.body))
              ELSE WrittenColumnSum(c) = R(0)

\* a table of three bins with a column of equal thirds, written as 333.33
\* each, beside a column without observations
C13_Witness ==
    /\ call.op = "export_tab_file"
    /\ Len(call.args.freq_tab) = 3 /\ call.result.sectors = 2
    /\ WrittenColumnSum(1) = Rat(99999, 100)
    /\ WrittenColumnSum(2) = R(0)

---------------------------------------------------------------------------
(* Claims about the correlation models: warnings, synthesis and frames *)

C16_MergedColumnsDistinct ==
    ccall.op = "MultipleLinearRegression"
    => LET a == ccall.args
           K == Len(a.ref_spds)
       IN  /\ Len(model.ref_cols) = K
           /\ \A i, j \in 1..K : i # j => model.ref_cols[i] # model.ref_cols[j]
           /\ \A i \in 1..K :
                model.ref_cols[i] = [mast |-> a.names[a.ref_spds[i]].mast, suffix |-> <<i>>]

\* C20: in every SectorSpeedModel every retained reference speed is at or
\* above the cutoff, and the target loses as many of its lowest values as
\* the reference lost, so the two arrays have the same length.
C20_RetainedReachCutoff ==
    model.kind = "SpeedSort"
    => \A k \in DOMAIN model.speed_model :
        LET m == model.speed_model[k]
            dropped == Len(m.sector_ref) - Len(m.x_data)
        IN  /\ \A i \in 1..Len(m.x_data) : RatGe(m.x_data[i], model.cutoff)
            /\ Len(m.x_data) = Len(m.y_data)
            /\ m.y_data = SubSeq(SortRat(m.sector_target), dropped + 1,
                                 Len(m.sector_target))

\* C12: every speed in the frame SpeedSort.synthesize returns is at or above
\* zero, with inputs given and with none.
C12_EverySpeedAtLeastZero ==
    (ccall.op = "synthesize" /\ ccall.self.kind = "SpeedSort" /\ ccall.raised = "none")
    => \A i \in 1..Len(ccall.result) : RatGe(ccall.result[i].spd, R(0))

\* C12: no speed in the frame SpeedSort.synthesize returns is below zero,
\* with inputs given and with none: each is at or above zero, or no number
\* where its sector's fit has no slope.
C12_NoSpeedBelowZero ==
    (ccall.op = "synthesize" /\ ccall.self.kind = "SpeedSort" /\ ccall.raised = "none")
    => \A i \in 1..Len(ccall.result) :
        \/ RatGe(ccall.result[i].spd, R(0))
        \/ /\ IsNaN(ccall.result[i].spd)
           /\ \E k \in DOMAIN ccall.self.speed_model : IsNaN(ccall.self.speed_model[k].slope)

\* a synthesis with no inputs in which a sector's line predicts a speed
\* below zero for a period without a target, and the frame holds zero there
C12_Witness ==
    /\ ccall.op = "synthesize" /\ ccall.self.kind = "SpeedSort" /\ ccall.raised = "none"
    /\ ccall.args.spd = None /\ ccall.args.dir = None
    /\ LET predicted == SpeedSortPredict(ccall.self,
                                         average_data_by_period(ccall.self.ref_spd[1]),
                                         average_data_by_period(ccall.self.ref_dir)).value
       IN  \E i \in 1..Len(ccall.result) :
            /\ RatLt(ValueAt(predicted, ccall.result[i].t), R(0))
            /\ IsNaN(ValueAt(ccall.self.target_spd, ccall.result[i].t))
            /\ ccall.result[i].spd = R(0)

\* the value CorrelBase._predict gives for the reference speed x
Predicted(self, x) ==
    RatAdd(RatMul(x, Get(self.params, "slope")), Get(self.params, "offset"))

\* C11: after run(), CorrelBase.synthesize() with no external input returns
\* one value for each period of the averaged reference or target: the
\* target's own value where it has one, and elsewhere the prediction from
\* the averaged reference.
C11_SynthesizeOverlaysTarget ==
    (/\ ccall.op = "synthesize" /\ ccall.raised = "none" /\ ccall.args.spd = None
     /\ ccall.self.kind \in {"OrdinaryLeastSquares", "OrthogonalLeastSquares"})
    => LET ref == average_data_by_period(ccall.self.ref_spd[1])
           tar == average_data_by_period(ccall.self.target_spd)
           periods == {ref[i].t : i \in 1..Len(ref)} \cup {tar[i].t : i \in 1..Len(tar)}
           out == ccall.result
       IN  /\ {out[i].t : i \in 1..Len(out)} = periods
           /\ Len(out) = Cardinality(periods)
           /\ \A i \in 1..Len(out) :
                out[i].v = IF ~IsNaN(ValueAt(tar, out[i].t)) THEN ValueAt(tar, out[i].t)
                           ELSE Predicted(ccall.self, ValueAt(ref, out[i].t))

\* a synthesis that keeps the target's value in a period where the model
\* predicts another, and fills a period without a target with the prediction
C11_Witness ==
    /\ ccall.op = "synthesize" /\ ccall.raised = "none" /\ ccall.args.spd = None
    /\ ccall.self.kind = "OrdinaryLeastSquares"
    /\ \E i, j \in 1..Len(ccall.result) :
        LET kept == ccall.result[i]
            filled == ccall.result[j]
            at(o) == Predicted(ccall.self, ValueAt(ccall.self.ref_spd[1], o.t))
        IN  /\ kept.v = ValueAt(ccall.self.target_spd, kept.t)
            /\ ~IsNaN(kept.v) /\ ~IsNaN(at(kept)) /\ at(kept) # kept.v
            /\ IsNaN(ValueAt(ccall.self.target_spd, filled.t))
            /\ ~IsNaN(filled.v) /\ filled.v = at(filled)

FrameCalls == {"run", "get_r2", "synthesize", "show_params"}

\* C19: run(), get_r2(), synthesize() and show_params() leave the aligned
\* dataset and num_data_pts of every correlation model as the constructor
\* left them, whether the call returns or raises.
C19_DataFixedAfterConstruction ==
    ccall.op \in FrameCalls
    => /\ model.data = ccall.self.data
       /\ model.num_data_pts = ccall.self.num_data_pts

\* a second run() of a SpeedSort whose sectors hold rows below the cutoff
\* and rows above it
C19_Witness ==
    /\ ccall.op = "run" /\ ccall.raised = "none" /\ model.kind = "SpeedSort"
    /\ ccall.self.params # NotYetRun
    /\ \E i, j \in 1..Len(model.data) :
        /\ RatLt(model.data[i].ref[1], model.cutoff)
        /\ RatGe(model.data[j].ref[1], model.cutoff)
    /\ model.data = ccall.self.data

---------------------------------------------------------------------------
(* Claims about the parts of a SpeedSort *)

\* the means of the two halves of an array split at floor(n / 2)
LowerMean(s) == RatMean(SubSeq(s, 1, Len(s) \div 2))
UpperMean(s) == RatMean(SubSeq(s, (Len(s) \div 2) + 1, Len(s)))

\* C21: a sector's line is fitted to the sorted, truncated arrays; where
\* they hold two points or more and the reference means of the two halves
\* differ, the slope is the ratio of the differences of the half means, the
\* offset is the lower target mean less slope times the lower reference
\* mean, and the line passes through both points of means.
C21_LineThroughHalfMeans ==
    call.op = "SectorSpeedModel"
    => LET m == call.result
           x == m.x_data
           y == m.y_data
           sorted_x == SortRat(call.args.ref_spd)
           sorted_y == SortRat(call.args.target_spd)
           on(v) == RatAdd(RatMul(m.slope, v), m.offset)
       IN  /\ x = SubSeq(sorted_x, Len(sorted_x) - Len(x) + 1, Len(sorted_x))
           /\ y = SubSeq(sorted_y, Len(sorted_y) - Len(x) + 1, Len(sorted_y))
           /\ (Len(x) >= 2 /\ LowerMean(x) # UpperMean(x))
              => /\ m.slope = RatDiv(RatSub(UpperMean(y), LowerMean(y)),
                                     RatSub(UpperMean(x), LowerMean(x)))
                 /\ m.offset = RatSub(LowerMean(y), RatMul(m.slope, LowerMean(x)))
                 /\ on(LowerMean(x)) = LowerMean(y)
                 /\ on(UpperMean(x)) = UpperMean(y)

\* three rows whose targets fall as their references rise, all retained:
\* the line rises, as it does through the sorted arrays alone
C21_Witness ==
    /\ call.op = "SectorSpeedModel"
    /\ call.args.ref_spd = <<R(2), R(5), R(5)>>
    /\ call.args.target_spd = <<R(5), R(2), R(1)>>
    /\ call.args.cutoff = R(2)
    /\ call.result.x_data = <<R(2), R(5), R(5)>>
    /\ call.result.y_data = <<R(1), R(2), R(5)>>
    /\ call.result.slope = Rat(5, 6)
    /\ call.result.offset = Rat(-2, 3)

\* C22: for directions in [0, 360) the veer is the target less the
\* reference, up to a whole turn, and lies in (-180, 180].
C22_VeerInHalfOpenRange ==
    call.op = "_get_veer"
    => LET v == call.result
           d == RatSub(call.args.target_d, call.args.ref_d)
       IN  /\ v \in {d, RatAdd(d, R(FullCircle)), RatSub(d, R(FullCircle))}
           /\ RatGt(v, R(-180)) /\ RatGe(R(180), v)

\* what the constructor's step left equals what it found, but for the
\* directions named
SameBut(after, before, cols) ==
    /\ Len(after) = Len(before)
    /\ \A j \in 1..Len(before) :
        /\ after[j].t = before[j].t
        /\ after[j].ref = before[j].ref /\ after[j].tar = before[j].tar
        /\ "ref_dir" \notin cols[j] => after[j].ref_dir = before[j].ref_dir
        /\ "tar_dir" \notin cols[j] => after[j].tar_dir = before[j].tar_dir

InFullCircle(d) == RatGe(d, R(0)) /\ RatLt(d, R(FullCircle))

C24_RandomizesCalmPeriodsOnly ==
    ccall.op = "SpeedSort"
    => LET before == ccall.result.merged
           after == ccall.result.randomized
       IN  /\ SameBut(after, before,
                      [j \in 1..Len(before) |->
                          (IF RatLt(before[j].ref[1], R(1)) THEN {"ref_dir"} ELSE {})
                          \cup (IF RatLt(before[j].tar, R(1)) THEN {"tar_dir"} ELSE {})])
           /\ \A j \in 1..Len(before) :
                /\ RatLt(before[j].ref[1], R(1)) => InFullCircle(after[j].ref_dir)
                /\ RatLt(before[j].tar, R(1)) => InFullCircle(after[j].tar_dir)
           /\ model.overall_veer
                = MeanVeer(after, model.ref_veer_cutoff, model.target_veer_cutoff).average_veer

\* a construction with a calm reference, a calm target and a row calm on
\* neither side, the two calm directions drawn anew
C24_Witness ==
    /\ ccall.op = "SpeedSort"
    /\ \E i, j, k \in 1..Len(ccall.result.merged) :
        LET before == ccall.result.merged
            after == ccall.result.randomized
        IN  /\ RatLt(before[i].ref[1], R(1)) /\ after[i].ref_dir # before[i].ref_dir
            /\ RatLt(before[j].tar, R(1)) /\ after[j].tar_dir # before[j].tar_dir
            /\ ~RatLt(before[k].ref[1], R(1)) /\ ~RatLt(before[k].tar, R(1))
            /\ after[k] = before[k]
    /\ ~IsNaN(model.overall_veer)

\* C25: the speed cutoff of a SpeedSort is min(0.5 * L, 4.0), L the
\* lt_ref_speed it was given or else the mean of monthly means of the whole
\* reference series.
C25_CutoffFromLongTermReference ==
    ccall.op = "SpeedSort"
    => LET L == IF ccall.args.lt_ref_speed # None THEN ccall.args.lt_ref_speed
                ELSE momm(model.ref_spd[1])
       IN  model.cutoff = PyMin(RatMul(Rat(1, 2), L), R(4))

\* C28: after SpeedSort.run() returns, params and speed_model hold an
\* entry for every sector from 1 to sectors.
C28_EverySectorFitted ==
    (ccall.op = "run" /\ ccall.raised = "none" /\ model.kind = "SpeedSort")
    => \A k \in 1..model.sectors :
        /\ k \in DOMAIN model.speed_model
        /\ ToString(k) \in Keys(model.params)

\* C26: _predict_dir interpolates the veer between the midpoints of
\* adjacent sectors: the multiples of 360 / sectors for sectors of equal
\* width, (lo + hi) / 2 for each sector [lo, hi) of a direction_bin_array;
\* the direction it returns is the input plus the interpolated veer, in
\* [0, 360).
C26_VeerBetweenSectorMidpoints ==
    (call.op = "_predict_dir" /\ call.raised # "KeyError")
    => LET array == call.args.direction_bin_array
           n == Len(call.args.veer)
           mids == call.result.veer_bins
           d == call.args.x_dir
       IN  /\ array = None =>
                /\ mids = [i \in 1..(n + 1) |-> RatMul(R(i - 1), Rat(FullCircle, n))]
                /\ call.raised = "none"
                /\ \E k \in 1..n :
                    /\ RatGe(d, mids[k]) /\ RatLt(d, mids[k + 1])
                    /\ call.result.value[1].v
                         = _range_0_to_360(RatAdd(d,
                              RatAdd(call.args.veer[k],
                                     RatMul(RatDiv(RatSub(d, mids[k]), Rat(FullCircle, n)),
                                            RatSub(call.args.veer[IF k = n THEN 1 ELSE k + 1],
                                                   call.args.veer[k])))))
                    /\ InFullCircle(call.result.value[1].v)
           /\ array # None =>
                \A i \in 1..n : mids[i] = RatDiv(RatAdd(array[i], array[i + 1]), R(2))

---------------------------------------------------------------------------
(* Claims about the CSV file *)

\* the user answered 'y' when asked whether to overwrite the file
AnsweredYesFor(name) ==
    /\ name = call.args.file_name
    /\ call.result.prompts >= 1
    /\ call.args.overwrite = "y"

\* C30: export_to_csv never replaces the contents of a file that exists
\* unless the user answered 'y' to the overwrite prompt for that file; with
\* no destination folder it raises FileNotFoundError and writes nothing.
C30_OverwriteOnlyOnYes ==
    call.op = "export_to_csv"
    => /\ \A name \in FileNames :
            (call.args.files[name] # Absent /\ ~AnsweredYesFor(name))
            => call.result.files[name] = call.args.files[name]
       /\ call.args.file_path # Folder
            => /\ call.raised = "FileNotFoundError"
               /\ call.result.files = call.args.files

---------------------------------------------------------------------------
(* Claims about the synthesis of a MultipleLinearRegression *)

\* C29: after run(), MultipleLinearRegression.synthesize() with no external
\* input returns a series of strictly increasing timestamps: predictions
\* for the periods before the first aligned period only, the target's
\* values for the aligned periods, and no period twice.
C29_SynthesisInTimeOrder ==
    (/\ ccall.op = "synthesize" /\ ccall.raised = "none" /\ ccall.args.spd = None
     /\ ccall.self.kind = "MultipleLinearRegression")
    => LET out == ccall.result
           data == ccall.self.data
           aligned == {data[j].t : j \in 1..Len(data)}
       IN  /\ \A i \in 1..(Len(out) - 1) : out[i].t < out[i + 1].t
           /\ \A i \in 1..Len(out) :
                IF out[i].t \in aligned
                THEN \E j \in 1..Len(data) : data[j].t = out[i].t /\ data[j].tar = out[i].v
                ELSE out[i].t < data[1].t
           /\ aligned \subseteq {out[i].t : i \in 1..Len(out)}

====
